---- MODULE Spec2Model ----
(***************************************************************************)
(* almost::vector<T, Allocator>: a model of the container of               *)
(* include/almost/vector.h and include/almost/buts/vector_impl.h.          *)
(*                                                                         *)
(* Memory is a heap of allocator-provided buffers; a buffer is a sequence  *)
(* of slots, each holding Raw (allocated, no element), MovedFrom (a live   *)
(* element that has been moved from) or a value (a live element).  A       *)
(* container is the triple _impl._data.ptr, _impl._data.count, _impl._size.*)
(* Every member function is an operator from a machine record (heap,       *)
(* containers, the side object of the running call, the event log of the   *)
(* call, the pending exception) to the machine record after it; the        *)
(* actions apply them to the state.  Indices are 0-based as in the source; *)
(* slot i of buffer p is heap[p][i + 1].                                   *)
(***************************************************************************)
EXTENDS Integers, Sequences, FiniteSets, TLC

\* ---------------------------------------------------------------- bounds
\* std::allocator_traits<allocator_type>::max_size(_impl): a request for
\* more slots fails
AllocMax == 4
\* longest source range, largest count argument of insert / assign
MaxRange == 2
\* buffers the heap can hold at once
MaxBufs == 4
\* the allocator's limit in the runs of repeated push_back
GrowthMax == 16
\* largest index passed to at()
MaxIndex == 10
\* the allocator's limit in the runs that insert from a single-pass source
StreamMax == 10
\* length of the single-pass source of those runs
StreamLen == 3
\* an element operation that throws is one of the first MaxFail of a call
MaxFail == 4

\* ------------------------------------------------------------ slot states
\* The container never inspects an element, so two element values show any
\* misplaced, lost or duplicated element: the value T() has and one other.
Raw == -1
MovedFrom == -2
DefaultVal == 0
OtherVal == 1
Values == {DefaultVal, OtherVal}
Null == 0
BufIds == 1..MaxBufs
Names == {"A", "B", "T"}

\* a function on 1..n as the sequence it is
Tuple(f) == SubSeq(f, 1, Len(f))

VARIABLES
  heap,          \* BufIds -> sequence of slots; <<>> when not allocated
  cs,            \* Names -> the container's _impl (and whether it exists)
  nothrowMove,   \* std::is_nothrow_move_constructible_v<value_type>
  memory,        \* the most slots the allocator provides in one allocation
  call,          \* the call under observation: arguments, state before, events
  run            \* push_back calls and reallocations since A was empty

vars == <<heap, cs, nothrowMove, memory, call, run>>

\* ------------------------------------------------------------- the machine
NoContainer == [alive |-> FALSE, ptr |-> Null, cap |-> 0, size |-> 0]
NoSrc == [k |-> "none", mv |-> FALSE, p |-> Null, i |-> 0, v |-> DefaultVal]
ValSrc(x) == [NoSrc EXCEPT !.k = "val", !.v = x]
RvalSrc(x) == [NoSrc EXCEPT !.k = "val", !.v = x, !.mv = TRUE]
DefSrc == [NoSrc EXCEPT !.k = "def"]
RefSrc(ptr, idx) == [NoSrc EXCEPT !.k = "ref", !.p = ptr, !.i = idx]
MoveRefSrc(ptr, idx) == [NoSrc EXCEPT !.k = "ref", !.p = ptr, !.i = idx, !.mv = TRUE]
SideSrc == [NoSrc EXCEPT !.k = "side"]
MoveSideSrc == [NoSrc EXCEPT !.k = "side", !.mv = TRUE]

Machine(h, c, oom, garbage) ==
  [heap |-> h, c |-> c, side |-> Raw, log |-> <<>>, exc |-> "none",
   oom |-> oom, garbage |-> garbage,
   nd |-> [ptr |-> Null, count |-> 0], ret |-> <<Null, 0>>,
   rv |-> 0, msg |-> <<<<>>, <<>>>>, path |-> "none", fail |-> 0]

InBuf(w, p, i) == p \in BufIds /\ i >= 0 /\ i < Len(w.heap[p])
IsLive(w, p, i) == InBuf(w, p, i) /\ w.heap[p][i + 1] # Raw
SrcOk(w, s) ==
  CASE s.k = "ref" -> IsLive(w, s.p, s.i)
    [] s.k = "side" -> w.side # Raw
    [] OTHER -> TRUE
\* the value an expression designating s yields; reading storage that holds
\* no element, or lies outside every buffer, is undefined behaviour and
\* yields whatever the memory holds (w.garbage)
SrcValue(w, s) ==
  CASE s.k = "val" -> s.v
    [] s.k = "def" -> DefaultVal
    [] s.k = "ref" -> IF IsLive(w, s.p, s.i) THEN w.heap[s.p][s.i + 1] ELSE w.garbage
    [] s.k = "side" -> IF w.side # Raw THEN w.side ELSE w.garbage
    [] OTHER -> w.garbage
How(s) == IF s.k = "def" THEN "default" ELSE IF s.mv THEN "move" ELSE "copy"
\* T(T&&) and operator=(T&&) leave their argument moved from
AfterRead(w, s) ==
  IF ~s.mv THEN w
  ELSE IF s.k = "ref" /\ IsLive(w, s.p, s.i)
       THEN [w EXCEPT !.heap[s.p][s.i + 1] = MovedFrom]
  ELSE IF s.k = "side" /\ w.side # Raw THEN [w EXCEPT !.side = MovedFrom]
  ELSE w
Event(op, p, i, how, s, dlive, sok) ==
  [op |-> op, p |-> p, i |-> i, how |-> how, sk |-> s.k, sp |-> s.p,
   si |-> s.i, dlive |-> dlive, sok |-> sok]

\* a statement: skipped once an exception is in flight
Step(w, nxt) == IF w.exc # "none" THEN w ELSE nxt
\* w; Rest(the machine after w)
Then(w, Rest(_)) == Rest(w)
\* an exception leaving a function declared noexcept: std::terminate
NoExcept(w0, w) ==
  Then(w, LAMBDA x :
    IF w0.exc = "none" /\ x.exc # "none" THEN [x EXCEPT !.exc = "terminate"] ELSE x)
\* for (i = lo; i < hi; ++i) Body; an exception leaves the loop
ForUp(w, lo, hi, Body(_, _)) ==
  LET n == IF hi < lo THEN lo ELSE hi
      f[i \in lo..n] ==
        IF i = lo THEN w
        ELSE LET x == f[i - 1] IN IF x.exc # "none" THEN x ELSE Body(x, i - 1)
  IN f[n]
\* for (i = hi; i >= lo; --i) Body
ForDown(w, hi, lo, Body(_, _)) ==
  LET n == IF hi < lo THEN 0 ELSE hi - lo + 1
      f[k \in 0..n] ==
        IF k = 0 THEN w
        ELSE LET x == f[k - 1] IN IF x.exc # "none" THEN x ELSE Body(x, hi - (k - 1))
  IN f[n]

\* Constructors and assignments of T that are not noexcept run a callback
\* of the caller after they have written their members; w.fail = k > 0 means
\* the k-th such operation of the call throws from it.  The move constructor
\* is noexcept when nothrowMove.
CanThrow(op, s) == ~(op = "construct" /\ How(s) = "move" /\ nothrowMove)
Throws(w, op, s) == w.fail = 1 /\ CanThrow(op, s)
Countdown(w, op, s) == IF w.fail > 1 /\ CanThrow(op, s) THEN w.fail - 1 ELSE w.fail
\* the exception leaves the constructor: no object exists at p + i, and the
\* source of a move has been marked moved from
ThrowFromConstruct(w, p, i, s) ==
  AfterRead(
    [w EXCEPT !.log = Append(@, Event("throw", p, i, How(s), s,
                                      IsLive(w, p, i), SrcOk(w, s))),
              !.exc = "element_error", !.fail = 0],
    s)
\* the exception leaves operator=: the object at p + i has its new value
ThrowFromAssign(w, p, i, s) ==
  AfterRead(
    [w EXCEPT !.log = Append(@, Event("throw", p, i, How(s), s,
                                      IsLive(w, p, i), SrcOk(w, s))),
              !.heap = IF InBuf(w, p, i)
                       THEN [@ EXCEPT ![p][i + 1] = SrcValue(w, s)] ELSE @,
              !.exc = "element_error", !.fail = 0],
    s)
\* std::allocator_traits<allocator_type>::construct(_impl, p + i, s)
Construct(w, p, i, s) ==
  Step(w,
    IF Throws(w, "construct", s) THEN ThrowFromConstruct(w, p, i, s)
    ELSE AfterRead(
      [w EXCEPT !.log = Append(@, Event("construct", p, i, How(s), s,
                                        IsLive(w, p, i), SrcOk(w, s))),
                !.heap = IF InBuf(w, p, i)
                         THEN [@ EXCEPT ![p][i + 1] = SrcValue(w, s)] ELSE @,
                !.fail = Countdown(w, "construct", s)],
      s))
\* *(p + i) = s
Assign(w, p, i, s) ==
  Step(w,
    IF Throws(w, "assign", s) THEN ThrowFromAssign(w, p, i, s)
    ELSE AfterRead(
      [w EXCEPT !.log = Append(@, Event("assign", p, i, How(s), s,
                                        IsLive(w, p, i), SrcOk(w, s))),
                !.heap = IF InBuf(w, p, i)
                         THEN [@ EXCEPT ![p][i + 1] = SrcValue(w, s)] ELSE @,
                !.fail = Countdown(w, "assign", s)],
      s))
\* std::allocator_traits<allocator_type>::destroy(_impl, p + i)
Destroy(w, p, i) ==
  Step(w,
    [w EXCEPT !.log = Append(@, Event("destroy", p, i, "", NoSrc, IsLive(w, p, i), TRUE)),
              !.heap = IF InBuf(w, p, i) THEN [@ EXCEPT ![p][i + 1] = Raw] ELSE @])
\* a local object T x(s) of the running call, and the end of its scope
ConstructSide(w, s) ==
  Step(w,
    IF Throws(w, "construct", s) THEN ThrowFromConstruct(w, Null, 0, s)
    ELSE AfterRead(
      [w EXCEPT !.log = Append(@, Event("construct", Null, 0, How(s), s,
                                        w.side # Raw, SrcOk(w, s))),
                !.side = SrcValue(w, s),
                !.fail = Countdown(w, "construct", s)],
      s))
DestroySide(w) ==
  IF w.side = Raw \/ w.exc = "terminate" THEN w
  ELSE [w EXCEPT !.log = Append(@, Event("destroy", Null, 0, "", NoSrc, TRUE, TRUE)),
                 !.side = Raw]

FreeIds(w) == {p \in BufIds : w.heap[p] = <<>>}
FirstFree(w) == CHOOSE q \in FreeIds(w) : \A r \in FreeIds(w) : q <= r
\* std::allocator_traits<allocator_type>::allocate(_impl, n): the new buffer
\* is left in nd
Allocate(w, n) ==
  Step(w,
    IF w.oom \/ n > memory \/ FreeIds(w) = {}
    THEN [w EXCEPT !.exc = "bad_alloc"]
    ELSE [w EXCEPT !.heap[FirstFree(w)] = Tuple([j \in 1..n |-> Raw]),
                   !.log = Append(@, Event("allocate", FirstFree(w), n, "", NoSrc,
                                           FALSE, TRUE)),
                   !.nd = [ptr |-> FirstFree(w), count |-> n]])
\* std::allocator_traits<allocator_type>::deallocate(_impl, p, n)
Deallocate(w, p, n) ==
  Step(w,
    [w EXCEPT !.log = Append(@, Event("deallocate", p, n, "", NoSrc,
                                      p \in BufIds /\ \E j \in 1..Len(w.heap[p]) :
                                                        w.heap[p][j] # Raw,
                                      p \in BufIds /\ Len(w.heap[p]) = n /\ n > 0)),
              !.heap = IF p \in BufIds THEN [@ EXCEPT ![p] = <<>>] ELSE @])

\* ------------------------------------------------------- helper functions
size(w, self) == w.c[self].size
capacity(w, self) == w.c[self].cap
data_ptr(w, self) == w.c[self].ptr
max_size == memory \div 2

\* move_to_if_noexcept that destroys the source elements after the whole
\* run has been constructed, whatever the element type
move_to_destroy_last(w, destroy, dp, di, sp, si, count) ==
  NoExcept(w,
    Then(ForUp(w, 0, count,
           LAMBDA x, i :
             Construct(x, dp, di + i,
                       IF nothrowMove THEN MoveRefSrc(sp, si + i)
                       ELSE RefSrc(sp, si + i))),
         LAMBDA w1 :
           IF destroy
           THEN ForUp(w1, 0, count, LAMBDA x, i : Destroy(x, sp, si + i))
           ELSE w1))

\* move_to_if_noexcept that moves whatever the element type
move_to_always(w, destroy, dp, di, sp, si, count) ==
  NoExcept(w,
    Then(ForUp(w, 0, count,
           LAMBDA x, i :
             Then(Construct(x, dp, di + i, MoveRefSrc(sp, si + i)),
                  LAMBDA y : IF destroy /\ nothrowMove
                             THEN Destroy(y, sp, si + i) ELSE y)),
         LAMBDA w1 :
           IF destroy /\ ~nothrowMove
           THEN ForUp(w1, 0, count, LAMBDA x, i : Destroy(x, sp, si + i))
           ELSE w1))

\* vector_impl.h:14  move_to_if_noexcept<destroy>(dst, src, count); dst is
\* slot di of buffer dp, src slot si of buffer sp
move_to_if_noexcept(w, destroy, dp, di, sp, si, count) ==
  NoExcept(w,
    Then(ForUp(w, 0, count,
           LAMBDA x, i :
             Then(Construct(x, dp, di + i,
                            IF nothrowMove THEN MoveRefSrc(sp, si + i)
                            ELSE RefSrc(sp, si + i)),
                  LAMBDA y : IF destroy /\ nothrowMove
                             THEN Destroy(y, sp, si + i) ELSE y)),
         LAMBDA w1 :
           IF destroy /\ ~nothrowMove
           THEN ForUp(w1, 0, count, LAMBDA x, i : Destroy(x, sp, si + i))
           ELSE w1))

\* shift_to_end that constructs the trailing slots from the highest index
\* to the lowest
shift_to_end_tail_first(w, self, pos, offset) ==
  LET p == data_ptr(w, self)
      n == size(w, self)
  IN IF pos = n
     THEN Step(w, [w EXCEPT !.c[self].size = n + offset])
     ELSE NoExcept(w,
            Then(ForDown(ForDown(w, n - 1, n - offset,
                           LAMBDA x, it : Construct(x, p, it + offset, MoveRefSrc(p, it))),
                         n - offset - 1, pos,
                         LAMBDA x, it : Assign(x, p, it + offset, MoveRefSrc(p, it))),
                 LAMBDA w2 : Step(w2, [w2 EXCEPT !.c[self].size = n + offset])))

\* vector_impl.h:38  shift_to_end(pos, offset); pos is an index, and the
\* iterator end() - offset is the index size - offset, below 0 when it
\* points before the buffer
shift_to_end(w, self, pos, offset) ==
  LET p == data_ptr(w, self)
      n == size(w, self)
  IN IF pos = n
     THEN Step(w, [w EXCEPT !.c[self].size = n + offset])
     ELSE NoExcept(w,
            Then(ForDown(ForUp(w, n - offset, n,
                           LAMBDA x, it : Construct(x, p, it + offset, MoveRefSrc(p, it))),
                         n - offset - 1, pos,
                         LAMBDA x, it : Assign(x, p, it + offset, MoveRefSrc(p, it))),
                 LAMBDA w2 : Step(w2, [w2 EXCEPT !.c[self].size = n + offset])))

\* allocate_if_needed that takes the present buffer to be large enough
allocate_if_needed_keep(w, self, count) ==
  Step(w, [w EXCEPT !.nd = [ptr |-> data_ptr(w, self), count |-> capacity(w, self)]])

\* vector_impl.h:59
allocate_if_needed(w, self, count) ==
  IF count <= capacity(w, self)
  THEN Step(w, [w EXCEPT !.nd = [ptr |-> data_ptr(w, self), count |-> capacity(w, self)]])
  ELSE NoExcept(w, Allocate(w, count))

\* grow_to that asks for count slots only
grow_to_exact(w, self, count) ==
  IF count <= capacity(w, self)
  THEN Step(w, [w EXCEPT !.nd = [ptr |-> data_ptr(w, self), count |-> capacity(w, self)]])
  ELSE NoExcept(w, allocate_if_needed(w, self, count))

\* grow_to that takes a new buffer already when count fills the capacity
grow_to_when_full(w, self, count) ==
  IF count < capacity(w, self)
  THEN Step(w, [w EXCEPT !.nd = [ptr |-> data_ptr(w, self), count |-> capacity(w, self)]])
  ELSE NoExcept(w, Allocate(w, IF count >= size(w, self) * 2 THEN count
                               ELSE size(w, self) * 2))

\* vector_impl.h:70
grow_to(w, self, count) ==
  IF count <= capacity(w, self)
  THEN Step(w, [w EXCEPT !.nd = [ptr |-> data_ptr(w, self), count |-> capacity(w, self)]])
  ELSE NoExcept(w, allocate_if_needed(w, self,
                     IF count >= size(w, self) * 2 THEN count ELSE size(w, self) * 2))

\* deallocate() that drops the buffer without returning it to the allocator
deallocate_forget(w, self) ==
  IF capacity(w, self) > 0
  THEN Step(w, [w EXCEPT !.c[self].ptr = Null, !.c[self].cap = 0])
  ELSE w

\* vector_impl.h:81
deallocate(w, self) ==
  IF capacity(w, self) > 0
  THEN Then(Deallocate(w, data_ptr(w, self), capacity(w, self)),
            LAMBDA w1 : Step(w1, [w1 EXCEPT !.c[self].ptr = Null, !.c[self].cap = 0]))
  ELSE w

\* _impl._data = new_data
install(w, self) ==
  Step(w, [w EXCEPT !.c[self].ptr = w.nd.ptr, !.c[self].cap = w.nd.count])
\* _impl._size = count
set_size(w, self, count) == Step(w, [w EXCEPT !.c[self].size = count])

\* resize(count) that constructs the new elements from the last one down
resize_backwards(w, self, count) ==
  LET n == size(w, self)
      p == data_ptr(w, self)
  IN Then(IF count < n
          THEN ForUp(w, count, n, LAMBDA x, i : Destroy(x, p, i))
          ELSE IF count > n
          THEN Then(allocate_if_needed(w, self, count),
                 LAMBDA a :
                   Then(ForDown(a, count - 1, n,
                          LAMBDA x, i : Construct(x, a.nd.ptr, i, DefSrc)),
                        LAMBDA b :
                          IF a.nd.ptr # p
                          THEN install(deallocate(
                                 move_to_if_noexcept(b, TRUE, a.nd.ptr, 0, p, 0, n),
                                 self), self)
                          ELSE b))
          ELSE w,
          LAMBDA w1 : set_size(w1, self, count))

\* resize(count) that grows the capacity as push_back does
resize_geometric(w, self, count) ==
  LET n == size(w, self)
      p == data_ptr(w, self)
  IN Then(IF count < n
          THEN ForUp(w, count, n, LAMBDA x, i : Destroy(x, p, i))
          ELSE IF count > n
          THEN Then(grow_to(w, self, count),
                 LAMBDA a :
                   Then(ForUp(a, n, count,
                          LAMBDA x, i : Construct(x, a.nd.ptr, i, DefSrc)),
                        LAMBDA b :
                          IF a.nd.ptr # p
                          THEN install(deallocate(
                                 move_to_if_noexcept(b, TRUE, a.nd.ptr, 0, p, 0, n),
                                 self), self)
                          ELSE b))
          ELSE w,
          LAMBDA w1 : set_size(w1, self, count))

\* vector_impl.h:593  resize(count)
resize(w, self, count) ==
  LET n == size(w, self)
      p == data_ptr(w, self)
  IN Then(IF count < n
          THEN ForUp(w, count, n, LAMBDA x, i : Destroy(x, p, i))
          ELSE IF count > n
          THEN Then(allocate_if_needed(w, self, count),
                 LAMBDA a :
                   Then(ForUp(a, n, count,
                          LAMBDA x, i : Construct(x, a.nd.ptr, i, DefSrc)),
                        LAMBDA b :
                          IF a.nd.ptr # p
                          THEN install(deallocate(
                                 move_to_if_noexcept(b, TRUE, a.nd.ptr, 0, p, 0, n),
                                 self), self)
                          ELSE b))
          ELSE w,
          LAMBDA w1 : set_size(w1, self, count))

\* vector_impl.h:467
clear(w, self) == NoExcept(w, resize(w, self, 0))

\* vector_impl.h:89  the old size is left in rv
clear_and_deallocate(w, self) ==
  NoExcept(w,
    Then(deallocate(clear(w, self), self),
         LAMBDA w1 : Step(w1, [w1 EXCEPT !.rv = size(w, self)])))

\* resize(count, value) that destroys each old element as soon as it is
\* relocated
resize_value_destroy_each(w, self, count, value) ==
  LET n == size(w, self)
      p == data_ptr(w, self)
  IN Then(IF count < n
          THEN ForUp(w, count, n, LAMBDA x, i : Destroy(x, p, i))
          ELSE IF count > n
          THEN Then(allocate_if_needed(w, self, count),
                 LAMBDA a :
                   IF a.nd.ptr # p
                   THEN install(deallocate(
                          move_to_if_noexcept(
                            ForUp(a, n, count,
                              LAMBDA x, i : Construct(x, a.nd.ptr, i, value)),
                            TRUE, a.nd.ptr, 0, p, 0, n),
                          self), self)
                   ELSE DestroySide(
                          ForUp(ConstructSide(a, value), n, count,
                            LAMBDA x, i : Construct(x, a.nd.ptr, i, SideSrc))))
          ELSE w,
          LAMBDA w1 : set_size(w1, self, count))

\* vector_impl.h:614  resize(count, value); value is what the reference
\* designates
resize_value(w, self, count, value) ==
  LET n == size(w, self)
      p == data_ptr(w, self)
  IN Then(IF count < n
          THEN ForUp(w, count, n, LAMBDA x, i : Destroy(x, p, i))
          ELSE IF count > n
          THEN Then(allocate_if_needed(w, self, count),
                 LAMBDA a :
                   IF a.nd.ptr # p
                   THEN install(clear_and_deallocate(
                          move_to_if_noexcept(
                            ForUp(a, n, count,
                              LAMBDA x, i : Construct(x, a.nd.ptr, i, value)),
                            FALSE, a.nd.ptr, 0, p, 0, n),
                          self), self)
                   ELSE DestroySide(
                          ForUp(ConstructSide(a, value), n, count,
                            LAMBDA x, i : Construct(x, a.nd.ptr, i, SideSrc))))
          ELSE w,
          LAMBDA w1 : set_size(w1, self, count))

\* reserve(new_cap) without the check against max_size()
reserve_unchecked(w, self, new_cap) ==
  Then(allocate_if_needed(w, self, new_cap),
    LAMBDA a :
      IF a.nd.ptr = data_ptr(w, self) THEN a
      ELSE install(deallocate(
             move_to_if_noexcept(a, TRUE, a.nd.ptr, 0, data_ptr(w, self), 0,
                                 size(w, self)),
             self), self))

\* reserve that takes its buffer from grow_to
reserve_geometric(w, self, new_cap) ==
  IF new_cap > max_size
  THEN Step(w, [w EXCEPT !.exc = "length_error"])
  ELSE Then(grow_to(w, self, new_cap),
         LAMBDA a :
           IF a.nd.ptr = data_ptr(w, self) THEN a
           ELSE install(deallocate(
                  move_to_if_noexcept(a, TRUE, a.nd.ptr, 0, data_ptr(w, self), 0,
                                      size(w, self)),
                  self), self))

\* vector_impl.h:436
reserve(w, self, new_cap) ==
  IF new_cap > max_size
  THEN Step(w, [w EXCEPT !.exc = "length_error"])
  ELSE Then(allocate_if_needed(w, self, new_cap),
         LAMBDA a :
           IF a.nd.ptr = data_ptr(w, self) THEN a
           ELSE install(deallocate(
                  move_to_if_noexcept(a, TRUE, a.nd.ptr, 0, data_ptr(w, self), 0,
                                      size(w, self)),
                  self), self))

\* shrink_to_fit() that moves to a new buffer whenever there are elements
shrink_to_fit_always(w, self) ==
  LET n == size(w, self)
      p == data_ptr(w, self)
  IN IF n = 0 THEN clear_and_deallocate(w, self)
     ELSE Then(Allocate(w, n),
            LAMBDA a :
              Then(clear_and_deallocate(
                     move_to_if_noexcept(a, FALSE, a.nd.ptr, 0, p, 0, n), self),
                   LAMBDA c :
                     Then(set_size(c, self, c.rv),
                          LAMBDA d :
                            Step(d, [d EXCEPT !.c[self].ptr = a.nd.ptr,
                                              !.c[self].cap = size(d, self)]))))

\* shrink_to_fit() that releases an empty container's buffer and otherwise
\* keeps the buffer
shrink_to_fit_empty_only(w, self) ==
  IF capacity(w, self) = size(w, self) THEN w
  ELSE IF size(w, self) = 0 THEN clear_and_deallocate(w, self)
  ELSE w

\* vector_impl.h:453
shrink_to_fit(w, self) ==
  LET n == size(w, self)
      p == data_ptr(w, self)
  IN IF capacity(w, self) = n THEN w
     ELSE IF n = 0 THEN clear_and_deallocate(w, self)
     ELSE Then(Allocate(w, n),
            LAMBDA a :
              Then(clear_and_deallocate(
                     move_to_if_noexcept(a, FALSE, a.nd.ptr, 0, p, 0, n), self),
                   LAMBDA c :
                     Then(set_size(c, self, c.rv),
                          LAMBDA d :
                            Step(d, [d EXCEPT !.c[self].ptr = a.nd.ptr,
                                              !.c[self].cap = size(d, self)]))))

\* return it: the iterator is left in ret, the branch taken in path
return(w, ptr, idx, path) == Step(w, [w EXCEPT !.ret = <<ptr, idx>>, !.path = path])

\* emplace that constructs no value outside the buffer: with room and pos
\* before the end it shifts and then assigns from its argument
emplace_no_tmp(w, self, pos, args) ==
  LET p == data_ptr(w, self)
      n == size(w, self)
  IN Then(grow_to(w, self, n + 1),
       LAMBDA a :
         IF a.nd.ptr # p
         THEN Then(install(deallocate(
                     move_to_if_noexcept(
                       move_to_if_noexcept(Construct(a, a.nd.ptr, pos, args),
                                           TRUE, a.nd.ptr, 0, p, 0, pos),
                       TRUE, a.nd.ptr, pos + 1, p, pos, n - pos),
                     self), self),
                LAMBDA e : return(set_size(e, self, size(e, self) + 1),
                                  a.nd.ptr, pos, "realloc"))
         ELSE return(IF pos = n
                     THEN Construct(shift_to_end(a, self, pos, 1), p, pos, args)
                     ELSE Assign(shift_to_end(a, self, pos, 1), p, pos, args),
                     p, pos, "inplace"))

\* vector_impl.h:521  emplace(pos, args...); args designates one object
emplace(w, self, pos, args) ==
  LET p == data_ptr(w, self)
      n == size(w, self)
  IN Then(grow_to(w, self, n + 1),
       LAMBDA a :
         IF a.nd.ptr # p
         THEN Then(install(deallocate(
                     move_to_if_noexcept(
                       move_to_if_noexcept(Construct(a, a.nd.ptr, pos, args),
                                           TRUE, a.nd.ptr, 0, p, 0, pos),
                       TRUE, a.nd.ptr, pos + 1, p, pos, n - pos),
                     self), self),
                LAMBDA e : return(set_size(e, self, size(e, self) + 1),
                                  a.nd.ptr, pos, "realloc"))
         ELSE return(IF pos = n
                     THEN Construct(shift_to_end(a, self, pos, 1), p, pos, args)
                     ELSE DestroySide(
                            Assign(shift_to_end(ConstructSide(a, args), self, pos, 1),
                                   p, pos, MoveSideSrc)),
                     p, pos, "inplace"))

\* vector_impl.h:579
emplace_back(w, self, args) == emplace(w, self, size(w, self), args)

\* vector_impl.h:158  vector(alloc)
ctor_default(w, self) ==
  Step(w, [w EXCEPT !.c[self] = [alive |-> TRUE, ptr |-> Null, cap |-> 0, size |-> 0]])

\* vector_impl.h:224  ~vector(); runs during unwinding too
dtor(w, self) ==
  IF w.exc = "terminate" THEN w
  ELSE Then(clear_and_deallocate([w EXCEPT !.exc = "none"], self),
            LAMBDA a : [a EXCEPT !.c[self] = NoContainer, !.exc = w.exc])

\* an exception leaving the body of a constructor that delegated to
\* vector(alloc): the destructor runs and the object never comes to exist
ctor_body(w, self) ==
  IF w.exc \in {"none", "terminate"} THEN w ELSE dtor(w, self)

\* vector_impl.h:161  vector(count, alloc)
ctor_count(w, self, count) ==
  ctor_body(resize(ctor_default(w, self), self, count), self)

\* vector_impl.h:166  vector(count, value, alloc)
ctor_count_value(w, self, count, value) ==
  ctor_body(ForUp(reserve(ctor_default(w, self), self, count), 0, count,
                  LAMBDA x, i : emplace_back(x, self, value)),
            self)

\* vector(first, last, alloc) that takes the range from its last element
ctor_range_backwards(w, self, src, forward) ==
  ctor_body(ForUp(IF forward THEN reserve(ctor_default(w, self), self, Len(src))
                  ELSE ctor_default(w, self),
                  0, Len(src), LAMBDA x, i : emplace_back(x, self, src[Len(src) - i])),
            self)

\* vector_impl.h:173  vector(first, last, alloc); src is the sequence of
\* objects [first, last) designates, forward tells whether InputIt is a
\* std::forward_iterator
ctor_range(w, self, src, forward) ==
  ctor_body(ForUp(IF forward THEN reserve(ctor_default(w, self), self, Len(src))
                  ELSE ctor_default(w, self),
                  0, Len(src), LAMBDA x, i : emplace_back(x, self, src[i + 1])),
            self)

\* construct(_impl, q + pos + k, *it) for each it of the source range
fill(w, q, pos, src) ==
  ForUp(w, 0, Len(src), LAMBDA y, k : Construct(y, q, pos + k, src[k + 1]))

\* vector_impl.h:103  insert<order, destroy>(pos, first, last), the branch
\* for a std::forward_iterator; src is the sequence of objects the range
\* designates
insert_forward(w, self, order, destroy, pos, src) ==
  LET count == Len(src)
      p == data_ptr(w, self)
      n == size(w, self)
  IN Then(grow_to(w, self, n + count),
       LAMBDA a :
         IF a.nd.ptr # p
         THEN Then(move_to_if_noexcept(
                     Then(move_to_if_noexcept(
                            IF order = "NewFirst" THEN fill(a, a.nd.ptr, pos, src) ELSE a,
                            destroy, a.nd.ptr, 0, p, 0, pos),
                          LAMBDA c :
                            IF order = "Natural" THEN fill(c, a.nd.ptr, pos, src)
                            ELSE c),
                     destroy, a.nd.ptr, pos + count, p, pos, n - pos),
                LAMBDA e :
                  Then(install(IF destroy THEN deallocate(e, self)
                               ELSE Then(clear_and_deallocate(e, self),
                                         LAMBDA g : set_size(g, self, g.rv)),
                               self),
                       LAMBDA h : return(set_size(h, self, size(h, self) + count),
                                         a.nd.ptr, pos, "realloc")))
         ELSE return(ForUp(shift_to_end(a, self, pos, count), 0, count,
                       LAMBDA y, k : IF pos + k < n
                                     THEN Assign(y, p, pos + k, src[k + 1])
                                     ELSE Construct(y, p, pos + k, src[k + 1])),
                     p, pos, "inplace"))

\* the move iterators over the elements of a vector
moved_range(w, self) ==
  Tuple([k \in 1..size(w, self) |-> MoveRefSrc(data_ptr(w, self), k - 1)])

\* insert<order, destroy>(pos, first, last) that never ends the life of tmp
insert_impl_keep_tmp(w, self, order, destroy, pos, src, forward) ==
  IF forward THEN insert_forward(w, self, order, destroy, pos, src)
  ELSE Then(ctor_range(w, "T", src, FALSE),
         LAMBDA a : insert_forward(a, self, order, destroy, pos, moved_range(a, "T")))

\* vector_impl.h:98  insert<order, destroy>(pos, first, last); a single-pass
\* range is first materialized in the local vector tmp
insert_impl(w, self, order, destroy, pos, src, forward) ==
  IF forward THEN insert_forward(w, self, order, destroy, pos, src)
  ELSE Then(ctor_range(w, "T", src, FALSE),
         LAMBDA a :
           dtor(insert_forward(a, self, order, destroy, pos, moved_range(a, "T")), "T"))

\* vector_impl.h:483  insert(pos, T&& value)
insert_rvalue(w, self, pos, value) ==
  insert_forward(w, self, "NewFirst", TRUE, pos, <<[value EXCEPT !.mv = TRUE]>>)

\* insert(pos, const T& value) that never copies value first
insert_value_direct(w, self, pos, value) ==
  insert_forward(w, self, "NewFirst", TRUE, pos, <<value>>)

\* vector_impl.h:471  insert(pos, const T& value)
insert_value(w, self, pos, value) ==
  IF capacity(w, self) - size(w, self) >= 1 /\ pos # size(w, self)
  THEN DestroySide(insert_rvalue(ConstructSide(w, value), self, pos, SideSrc))
  ELSE insert_forward(w, self, "NewFirst", TRUE, pos, <<value>>)

\* vector_impl.h:491  insert(pos, count, const T& value)
insert_count(w, self, pos, count, value) ==
  IF capacity(w, self) - size(w, self) >= count
  THEN DestroySide(insert_forward(ConstructSide(w, value), self, "NewFirst", TRUE, pos,
                                  Tuple([k \in 1..count |-> SideSrc])))
  ELSE insert_forward(w, self, "NewFirst", FALSE, pos, Tuple([k \in 1..count |-> value]))

\* insert(pos, first, last) that constructs the new elements first
insert_range_new_first(w, self, pos, src, forward) ==
  insert_impl(w, self, "NewFirst", FALSE, pos, src, forward)

\* vector_impl.h:507  insert(pos, first, last)
insert_range(w, self, pos, src, forward) ==
  insert_impl(w, self, "Natural", FALSE, pos, src, forward)

\* erase(first, last) that drops the last elements without moving any
erase_range_truncate(w, self, first, last) ==
  return(resize(w, self, size(w, self) - (last - first)),
         data_ptr(w, self), first, "none")

\* vector_impl.h:557  erase(first, last)
erase_range(w, self, first, last) ==
  LET p == data_ptr(w, self)
      n == size(w, self)
      d == last - first
  IN IF first = last THEN return(w, p, last, "none")
     ELSE return(resize(ForUp(w, 0, n - last,
                          LAMBDA x, k : Assign(x, p, first + k, MoveRefSrc(p, last + k))),
                        self, n - (IF d <= n THEN d ELSE n)),
                 p, first, "none")

\* vector_impl.h:552  erase(pos)
erase(w, self, pos) == erase_range(w, self, pos, pos + 1)

\* what std::remove / std::remove_if test an element with: equality with
\* the object value designates, or a predicate, given as the set of values
\* it accepts
EqualTo(value) == [k |-> "eq", src |-> value, accepts |-> {}]
Pred(accepts) == [k |-> "pred", src |-> NoSrc, accepts |-> accepts]
Matches(w, m, p, i) ==
  IF m.k = "eq" THEN SrcValue(w, RefSrc(p, i)) = SrcValue(w, m.src)
  ELSE SrcValue(w, RefSrc(p, i)) \in m.accepts
\* std::remove(c.begin(), c.end(), value), std::remove_if(c.begin(), c.end(),
\* pred): the elements after the first match that do not match are move
\* assigned towards the front; the index returned is left in rv
std_remove(w, self, m) ==
  LET p == data_ptr(w, self)
      n == size(w, self)
      found == {i \in 0..(n - 1) : Matches(w, m, p, i)}
      first == IF found = {} THEN n ELSE CHOOSE i \in found : \A j \in found : i <= j
  IN ForUp([w EXCEPT !.rv = first], first + 1, n,
       LAMBDA x, i :
         IF Matches(x, m, p, i) THEN x
         ELSE Then(Assign(x, p, x.rv, MoveRefSrc(p, i)),
                   LAMBDA y : Step(y, [y EXCEPT !.rv = x.rv + 1])))

\* erase(c, value) / erase_if(c, pred) that leave out c.erase(it, c.end())
erase_matching_no_erase(w, self, m) ==
  Then(std_remove(w, self, m),
       LAMBDA a : Step(a, [a EXCEPT !.rv = size(w, self) - a.rv]))

\* vector_impl.h:674  the body shared by erase(c, value) and erase_if(c, pred);
\* the number of elements erased is left in rv
erase_matching(w, self, m) ==
  Then(std_remove(w, self, m),
       LAMBDA a :
         Then(erase_range(a, self, a.rv, size(a, self)),
              LAMBDA b : Step(b, [b EXCEPT !.rv = size(w, self) - a.rv])))

\* vector_impl.h:674  erase(c, value)
erase_value(w, self, value) == erase_matching(w, self, EqualTo(value))

\* vector_impl.h:682  erase_if(c, pred)
erase_if(w, self, accepts) == erase_matching(w, self, Pred(accepts))

\* vector_impl.h:571  push_back(const T&)
push_back(w, self, value) == insert_value(w, self, size(w, self), value)

\* vector_impl.h:575  push_back(T&&)
push_back_rvalue(w, self, value) == insert_rvalue(w, self, size(w, self), value)

\* vector_impl.h:588
pop_back(w, self) == resize(w, self, size(w, self) - 1)

\* vector_impl.h:643  std::swap(_impl, other._impl)
swap(w, self, other) ==
  IF self = other THEN w
  ELSE Step(w, [w EXCEPT !.c[self] = w.c[other], !.c[other] = w.c[self]])

\* operator=(vector&& other) that only swaps
move_assign_swap_only(w, self, other) == swap(w, self, other)

\* vector_impl.h:238  operator=(vector&& other)
move_assign(w, self, other) ==
  clear_and_deallocate(swap(w, self, other), other)

\* assign(first, last) that always overwrites in place and appends
assign_in_place(w, self, src, forward) ==
  resize(ForUp(w, 0, Len(src),
           LAMBDA x, new_size :
             IF new_size < size(x, self)
             THEN Assign(x, data_ptr(x, self), new_size, src[new_size + 1])
             ELSE emplace_back(x, self, src[new_size + 1])),
         self, Len(src))

\* vector_impl.h:261  assign(first, last)
assign(w, self, src, forward) ==
  IF forward /\ capacity(w, self) < Len(src)
  THEN dtor(swap(ctor_range(w, "T", src, TRUE), self, "T"), "T")
  ELSE resize(ForUp(w, 0, Len(src),
                LAMBDA x, new_size :
                  IF new_size < size(x, self)
                  THEN Assign(x, data_ptr(x, self), new_size, src[new_size + 1])
                  ELSE emplace_back(x, self, src[new_size + 1])),
              self, Len(src))

\* vector_impl.h:255  assign(count, value)
assign_count(w, self, count, value) ==
  assign(w, self, Tuple([k \in 1..count |-> value]), TRUE)

\* vector_impl.h:229  operator=(const vector& other)
copy_assign(w, self, other) ==
  IF self = other THEN w
  ELSE assign(w, self,
              Tuple([k \in 1..size(w, other) |-> RefSrc(data_ptr(w, other), k - 1)]),
              TRUE)

\* std::to_string(n): the decimal digits of n, most significant first
RECURSIVE to_string(_)
to_string(n) == IF n < 10 THEN <<n>> ELSE Append(to_string(n \div 10), n % 10)

\* at(pos) that lets pos = size() through
at_lenient(w, self, pos) ==
  IF pos > size(w, self)
  THEN Step(w, [w EXCEPT !.exc = "out_of_range",
                         !.msg = <<to_string(pos), to_string(size(w, self))>>])
  ELSE Step(w, [w EXCEPT !.rv = SrcValue(w, RefSrc(data_ptr(w, self), pos)),
                         !.ret = <<data_ptr(w, self), pos>>])

\* vector_impl.h:294  at(pos): the element is left in rv; msg holds the
\* two numbers of the message, "... (which is <pos>) >= this->size() (which
\* is <size>)", as the digits written
at(w, self, pos) ==
  IF pos >= size(w, self)
  THEN Step(w, [w EXCEPT !.exc = "out_of_range",
                         !.msg = <<to_string(pos), to_string(size(w, self))>>])
  ELSE Step(w, [w EXCEPT !.rv = SrcValue(w, RefSrc(data_ptr(w, self), pos)),
                         !.ret = <<data_ptr(w, self), pos>>])

\* ------------------------------------------------------------ the program
\* The program owns the vector A and, for a while, a second vector B.  It
\* calls member functions in any order with arguments drawn from small sets;
\* oom: the allocator has no memory during the call; g: what a read of
\* storage holding no element yields.  One call is observed: its arguments,
\* the state before it and its events are kept in `call`, and the program is
\* not followed further.
Flip(x) == IF x = DefaultVal THEN OtherVal ELSE DefaultVal
\* the source ranges x, Flip(x), x, ...: neighbours differ
Alt(n, x) == Tuple([k \in 1..n |-> IF k % 2 = 1 THEN x ELSE Flip(x)])
Ranges == {Alt(n, OtherVal) : n \in 0..MaxRange}
Counts == 0..MaxRange
Sizes == 0..(max_size + 1)
Garbage == Values \cup {MovedFrom}
\* what a (const T&) argument can designate: an object of the caller or an
\* element of the container itself
Refs(self) ==
  {ValSrc(x) : x \in Values}
    \cup {RefSrc(cs[self].ptr, i) : i \in 0..(cs[self].size - 1)}
SrcRange(seq) == Tuple([k \in 1..Len(seq) |-> ValSrc(seq[k])])

EmptyHeap == Tuple([p \in BufIds |-> <<>>])
NoContainers == [A |-> NoContainer, B |-> NoContainer, T |-> NoContainer]
NoArgs ==
  [op |-> "none", self |-> "A", other |-> "A", pos |-> 0, lst |-> 0, count |-> 0,
   src |-> <<>>, forward |-> TRUE, oom |-> FALSE, fail |-> 0]
NoCall ==
  [a |-> NoArgs, pre |-> [heap |-> EmptyHeap, c |-> NoContainers],
   log |-> <<>>, exc |-> "none", ret |-> <<Null, 0>>, rv |-> 0,
   msg |-> <<<<>>, <<>>>>, path |-> "none"]
Aborted == [NoCall EXCEPT !.exc = "terminate"]
Observed(a, w0, w) ==
  [a |-> a, pre |-> [heap |-> w0.heap, c |-> w0.c], log |-> w.log, exc |-> w.exc,
   ret |-> w.ret, rv |-> w.rv, msg |-> w.msg, path |-> w.path]
NoRun == [pushes |-> -1, reallocs |-> 0]
NewRun == [pushes |-> 0, reallocs |-> 0]
\* the run of push_back calls on a container that started empty
RunAfter(a, w) ==
  IF w.exc # "none" THEN NoRun
  ELSE IF a.op = "vector" THEN NewRun
  ELSE IF a.op \in {"push_back", "push_back_rvalue"} /\ run.pushes >= 0
  THEN [pushes |-> run.pushes + 1,
        reallocs |-> run.reallocs
                       + Cardinality({k \in 1..Len(w.log) : w.log[k].op = "allocate"})]
  ELSE NoRun

M(oom, g) == Machine(heap, cs, oom, g)
Running == call = NoCall
Usable(self) == Running /\ cs[self].alive
Allocates(w) == \E k \in 1..Len(w.log) : w.log[k].op = "allocate"
ReadsGarbage(w) == \E k \in 1..Len(w.log) : ~w.log[k].sok
\* Addresses are compared and never computed with, so states that differ by
\* a renaming of the buffers behave alike: the program goes on from the one
\* where A's buffer has the first address.
Renamed(p, a) == IF p = a THEN 1 ELSE IF p = 1 THEN a ELSE p
Canon(w) ==
  LET a == w.c["A"].ptr
  IN IF ~w.c["A"].alive \/ a = Null \/ a = 1 THEN w
     ELSE [w EXCEPT !.heap = [w.heap EXCEPT ![1] = w.heap[a], ![a] = w.heap[1]],
                    !.c = [A |-> [w.c["A"] EXCEPT !.ptr = Renamed(@, a)],
                           B |-> [w.c["B"] EXCEPT !.ptr = Renamed(@, a)],
                           T |-> [w.c["T"] EXCEPT !.ptr = Renamed(@, a)]]]
\* The call returns (or throws, or ends the program) with machine w.  When
\* the program goes on, it leaves the scope of the second vector.
Done(a, w0, w) ==
  \E r \in {w}, watch \in BOOLEAN :
    /\ UNCHANGED <<nothrowMove, memory>>
    /\ run' = RunAfter(a, r)
    /\ IF watch
       THEN heap' = r.heap /\ cs' = r.c /\ call' = Observed(a, w0, r)
       ELSE IF r.exc = "terminate"
       THEN heap' = EmptyHeap /\ cs' = NoContainers /\ call' = Aborted
       ELSE \E q \in {Canon(IF r.c["B"].alive THEN dtor([r EXCEPT !.exc = "none"], "B")
                              ELSE r)} :
              heap' = q.heap /\ cs' = q.c /\ call' = NoCall
\* Op is called on machine w0.  The allocator may fail whenever it is asked
\* for memory, and a read of storage that holds no element may yield anything.
CallOn(w, a, Op(_)) ==
  \E w0 \in {w} :
  \E r0 \in {Op(w0)} :
    \E oom \in IF Allocates(r0) THEN BOOLEAN ELSE {FALSE},
       g \in IF ReadsGarbage(r0) THEN Garbage ELSE {w0.garbage} :
      Done([a EXCEPT !.oom = oom], w0,
           IF ~oom /\ g = w0.garbage THEN r0
           ELSE Op([w0 EXCEPT !.oom = oom, !.garbage = g]))
Call(a, Op(_)) == CallOn(M(FALSE, MovedFrom), a, Op)
Args(op) == [NoArgs EXCEPT !.op = op]

Init ==
  /\ heap = EmptyHeap
  /\ cs = [NoContainers EXCEPT !["A"] = [NoContainer EXCEPT !.alive = TRUE]]
  /\ nothrowMove \in BOOLEAN
  /\ memory = AllocMax
  /\ call = NoCall
  /\ run = NewRun

Destructor ==
  /\ Usable("A")
  /\ Call(Args("~vector"), LAMBDA w : dtor(w, "A"))
Constructible == Running /\ ~cs["A"].alive
CtorDefault ==
  /\ Constructible
  /\ Call(Args("vector"), LAMBDA w : ctor_default(w, "A"))
CtorCount ==
  /\ Constructible
  /\ \E n \in Sizes :
       Call([Args("vector_count") EXCEPT !.count = n],
            LAMBDA w : ctor_count(w, "A", n))
CtorCountValue ==
  /\ Constructible
  /\ \E n \in Sizes, x \in Values :
       Call([Args("vector_count_value") EXCEPT !.count = n, !.src = <<ValSrc(x)>>],
            LAMBDA w : ctor_count_value(w, "A", n, ValSrc(x)))
CtorRange ==
  /\ Constructible
  /\ \E seq \in Ranges, forward \in BOOLEAN :
       Call([Args("vector_range") EXCEPT !.src = SrcRange(seq), !.forward = forward],
            LAMBDA w : ctor_range(w, "A", SrcRange(seq), forward))
PushBack ==
  /\ Usable("A")
  /\ \E value \in Refs("A") :
       Call([Args("push_back") EXCEPT !.src = <<value>>],
            LAMBDA w : push_back(w, "A", value))
PushBackRvalue ==
  /\ Usable("A")
  /\ \E x \in Values :
       Call([Args("push_back_rvalue") EXCEPT !.src = <<ValSrc(x)>>],
            LAMBDA w : push_back_rvalue(w, "A", ValSrc(x)))
EmplaceBack ==
  /\ Usable("A")
  /\ \E args \in Refs("A") :
       Call([Args("emplace_back") EXCEPT !.src = <<args>>],
            LAMBDA w : emplace_back(w, "A", args))
Emplace ==
  /\ Usable("A")
  /\ \E pos \in 0..cs["A"].size, args \in Refs("A") :
       Call([Args("emplace") EXCEPT !.pos = pos, !.src = <<args>>],
            LAMBDA w : emplace(w, "A", pos, args))
InsertValue ==
  /\ Usable("A")
  /\ \E pos \in 0..cs["A"].size, value \in Refs("A") :
       Call([Args("insert_value") EXCEPT !.pos = pos, !.src = <<value>>],
            LAMBDA w : insert_value(w, "A", pos, value))
InsertRvalue ==
  /\ Usable("A")
  /\ \E pos \in 0..cs["A"].size, x \in Values :
       Call([Args("insert_rvalue") EXCEPT !.pos = pos, !.src = <<ValSrc(x)>>],
            LAMBDA w : insert_rvalue(w, "A", pos, ValSrc(x)))
InsertCount ==
  /\ Usable("A")
  /\ \E pos \in 0..cs["A"].size, count \in Counts, value \in Refs("A") :
       Call([Args("insert_count") EXCEPT !.pos = pos, !.count = count,
                                         !.src = <<value>>],
            LAMBDA w : insert_count(w, "A", pos, count, value))
InsertRange ==
  /\ Usable("A")
  /\ \E pos \in 0..cs["A"].size, seq \in Ranges, forward \in BOOLEAN :
       Call([Args("insert_range") EXCEPT !.pos = pos, !.src = SrcRange(seq),
                                         !.count = Len(seq), !.forward = forward],
            LAMBDA w : insert_range(w, "A", pos, SrcRange(seq), forward))
Erase ==
  /\ Usable("A")
  /\ \E pos \in 0..(cs["A"].size - 1) :
       Call([Args("erase") EXCEPT !.pos = pos, !.lst = pos + 1],
            LAMBDA w : erase(w, "A", pos))
EraseValue ==
  /\ Usable("A")
  /\ \E value \in Refs("A") :
       Call([Args("erase_value") EXCEPT !.src = <<value>>],
            LAMBDA w : erase_value(w, "A", value))
\* the predicate is recorded as the values it accepts
EraseIf ==
  /\ Usable("A")
  /\ \E accepts \in SUBSET Values :
       Call([Args("erase_if") EXCEPT
               !.src = SrcRange(SelectSeq(<<DefaultVal, OtherVal>>,
                                          LAMBDA x : x \in accepts))],
            LAMBDA w : erase_if(w, "A", accepts))
EraseRange ==
  /\ Usable("A")
  /\ \E first \in 0..cs["A"].size :
       \E lst \in first..cs["A"].size :
         Call([Args("erase_range") EXCEPT !.pos = first, !.lst = lst],
              LAMBDA w : erase_range(w, "A", first, lst))
PopBack ==
  /\ Usable("A")
  /\ cs["A"].size > 0
  /\ Call(Args("pop_back"), LAMBDA w : pop_back(w, "A"))
Resize ==
  /\ Usable("A")
  /\ \E n \in Sizes :
       Call([Args("resize") EXCEPT !.count = n], LAMBDA w : resize(w, "A", n))
ResizeValue ==
  /\ Usable("A")
  /\ \E n \in Sizes, value \in Refs("A") :
       Call([Args("resize_value") EXCEPT !.count = n, !.src = <<value>>],
            LAMBDA w : resize_value(w, "A", n, value))
Reserve ==
  /\ Usable("A")
  /\ \E n \in Sizes :
       Call([Args("reserve") EXCEPT !.count = n], LAMBDA w : reserve(w, "A", n))
ShrinkToFit ==
  /\ Usable("A")
  /\ Call(Args("shrink_to_fit"), LAMBDA w : shrink_to_fit(w, "A"))
\* v.shrink_to_fit(); v.shrink_to_fit(); the second call is the observed
\* one, and count records the capacity before the first
Shrunk ==
  [shrink_to_fit(M(FALSE, MovedFrom), "A")
     EXCEPT !.log = <<>>, !.ret = <<Null, 0>>, !.path = "none", !.rv = 0,
            !.nd = [ptr |-> Null, count |-> 0]]
ShrinkToFitAgain ==
  /\ Usable("A")
  /\ CallOn(Shrunk, [Args("shrink_to_fit_again") EXCEPT !.count = cs["A"].cap],
            LAMBDA w : shrink_to_fit(w, "A"))
Clear ==
  /\ Usable("A")
  /\ Call(Args("clear"), LAMBDA w : clear(w, "A"))
AssignRange ==
  /\ Usable("A")
  /\ \E seq \in Ranges, forward \in BOOLEAN :
       Call([Args("assign") EXCEPT !.src = SrcRange(seq), !.forward = forward],
            LAMBDA w : assign(w, "A", SrcRange(seq), forward))
AssignCount ==
  /\ Usable("A")
  /\ \E n \in Counts, x \in Values :
       Call([Args("assign_count") EXCEPT !.count = n, !.src = <<ValSrc(x)>>],
            LAMBDA w : assign_count(w, "A", n, ValSrc(x)))
At ==
  /\ Usable("A")
  /\ \E pos \in 0..MaxIndex :
       Call([Args("at") EXCEPT !.pos = pos], LAMBDA w : at(w, "A", pos))

\* A second vector lives in the caller's scope around one call:
\*   { vector B(first, last); if (pop) B.pop_back(); A = std::move(B); }
\* An observed call is left before the scope is: B is still there.
Other(seq, pop) ==
  LET b == ctor_range(M(FALSE, MovedFrom), "B", SrcRange(seq), FALSE)
  IN [(IF pop /\ Len(seq) > 0 THEN pop_back(b, "B") ELSE b)
        EXCEPT !.log = <<>>, !.ret = <<Null, 0>>, !.path = "none",
               !.nd = [ptr |-> Null, count |-> 0]]
Pairs == {<<"A", "B">>, <<"B", "A">>, <<"A", "A">>}
Swap ==
  /\ Usable("A")
  /\ \E seq \in Ranges, pop \in BOOLEAN, pr \in Pairs :
       CallOn(Other(seq, pop), [Args("swap") EXCEPT !.self = pr[1], !.other = pr[2]],
              LAMBDA w : swap(w, pr[1], pr[2]))
MoveAssign ==
  /\ Usable("A")
  /\ \E seq \in Ranges, pop \in BOOLEAN, pr \in Pairs :
       CallOn(Other(seq, pop),
              [Args("move_assign") EXCEPT !.self = pr[1], !.other = pr[2]],
              LAMBDA w : move_assign(w, pr[1], pr[2]))
CopyAssign ==
  /\ Usable("A")
  /\ \E seq \in Ranges, pop \in BOOLEAN, pr \in Pairs :
       CallOn(Other(seq, pop),
              [Args("copy_assign") EXCEPT !.self = pr[1], !.other = pr[2]],
              LAMBDA w : copy_assign(w, pr[1], pr[2]))

Next ==
  \/ Destructor \/ CtorDefault \/ CtorCount \/ CtorCountValue \/ CtorRange
  \/ PushBack \/ PushBackRvalue \/ EmplaceBack \/ Emplace
  \/ InsertValue \/ InsertRvalue \/ InsertCount \/ InsertRange
  \/ Erase \/ EraseRange \/ EraseValue \/ EraseIf \/ PopBack
  \/ Resize \/ ResizeValue \/ Reserve \/ ShrinkToFit \/ ShrinkToFitAgain \/ Clear
  \/ AssignRange \/ AssignCount \/ At
  \/ Swap \/ MoveAssign \/ CopyAssign

Spec == Init /\ [][Next]_vars

\* repeated push_back on a container that starts empty, with an allocator
\* that provides up to GrowthMax slots
InitGrowth ==
  /\ heap = EmptyHeap
  /\ cs = [NoContainers EXCEPT !["A"] = [NoContainer EXCEPT !.alive = TRUE]]
  /\ nothrowMove \in BOOLEAN
  /\ memory = GrowthMax
  /\ call = NoCall
  /\ run = NewRun
PushBackAgain ==
  /\ Usable("A")
  /\ Call([Args("push_back") EXCEPT !.src = <<ValSrc(OtherVal)>>],
          LAMBDA w : push_back(w, "A", ValSrc(OtherVal)))
PushBackRvalueAgain ==
  /\ Usable("A")
  /\ Call([Args("push_back_rvalue") EXCEPT !.src = <<ValSrc(OtherVal)>>],
          LAMBDA w : push_back_rvalue(w, "A", ValSrc(OtherVal)))
NextGrowth == PushBackAgain \/ PushBackRvalueAgain
SpecGrowth == InitGrowth /\ [][NextGrowth]_vars

\* insertion from a single-pass source of StreamLen values into the
\* container vector{0, 1}, which may first have reserved room
Streams == {Tuple(f) : f \in [1..StreamLen -> Values]}
InitSinglePass ==
  /\ nothrowMove \in BOOLEAN
  /\ memory = StreamMax
  /\ call = NoCall
  /\ run = NoRun
  /\ \E w \in {ctor_range(Machine(EmptyHeap, NoContainers, FALSE, MovedFrom), "A",
                           SrcRange(<<DefaultVal, OtherVal>>), TRUE)} :
       heap = w.heap /\ cs = w.c
InsertSinglePass ==
  /\ Usable("A")
  /\ cs["A"].size = 2
  /\ \E pos \in 0..cs["A"].size, seq \in Streams :
       Call([Args("insert_range") EXCEPT !.pos = pos, !.src = SrcRange(seq),
                                         !.count = Len(seq), !.forward = FALSE],
            LAMBDA w : insert_range(w, "A", pos, SrcRange(seq), FALSE))
NextSinglePass == Reserve \/ InsertSinglePass
SpecSinglePass == InitSinglePass /\ [][NextSinglePass]_vars

\* The element type's constructors and assignments may throw: each call is
\* made with the ordinal of the element operation that throws (0: none).
Fails == 0..MaxFail
Failing(k) == [M(FALSE, MovedFrom) EXCEPT !.fail = k]
ArgsThrowing(op, k) == [NoArgs EXCEPT !.op = op, !.fail = k]
\* the program makes no further call after one in which it lets an element
\* operation throw
LastCall(k) == k > 0 => call'.a.op # "none"
PushBackThrowing ==
  /\ Usable("A")
  /\ \E k \in Fails :
       /\ CallOn(Failing(k),
                 [ArgsThrowing("push_back", k) EXCEPT !.src = <<ValSrc(OtherVal)>>],
                 LAMBDA w : push_back(w, "A", ValSrc(OtherVal)))
       /\ LastCall(k)
EmplaceBackThrowing ==
  /\ Usable("A")
  /\ \E k \in Fails :
       /\ CallOn(Failing(k),
                 [ArgsThrowing("emplace_back", k) EXCEPT !.src = <<ValSrc(OtherVal)>>],
                 LAMBDA w : emplace_back(w, "A", ValSrc(OtherVal)))
       /\ LastCall(k)
EmplaceThrowing ==
  /\ Usable("A")
  /\ \E k \in Fails, pos \in 0..cs["A"].size :
       /\ CallOn(Failing(k),
                 [ArgsThrowing("emplace", k) EXCEPT !.pos = pos,
                                                   !.src = <<ValSrc(OtherVal)>>],
                 LAMBDA w : emplace(w, "A", pos, ValSrc(OtherVal)))
       /\ LastCall(k)
InsertValueThrowing ==
  /\ Usable("A")
  /\ \E k \in Fails, pos \in 0..cs["A"].size :
       /\ CallOn(Failing(k),
                 [ArgsThrowing("insert_value", k) EXCEPT !.pos = pos,
                                                        !.src = <<ValSrc(OtherVal)>>],
                 LAMBDA w : insert_value(w, "A", pos, ValSrc(OtherVal)))
       /\ LastCall(k)
InsertRangeThrowing ==
  /\ Usable("A")
  /\ \E k \in Fails, pos \in 0..cs["A"].size, seq \in Ranges :
       /\ CallOn(Failing(k),
                 [ArgsThrowing("insert_range", k) EXCEPT !.pos = pos,
                                                        !.src = SrcRange(seq),
                                                        !.count = Len(seq)],
                 LAMBDA w : insert_range(w, "A", pos, SrcRange(seq), TRUE))
       /\ LastCall(k)
ResizeThrowing ==
  /\ Usable("A")
  /\ \E k \in Fails, n \in Sizes :
       /\ CallOn(Failing(k), [ArgsThrowing("resize", k) EXCEPT !.count = n],
                 LAMBDA w : resize(w, "A", n))
       /\ LastCall(k)
AssignThrowing ==
  /\ Usable("A")
  /\ \E k \in Fails, seq \in Ranges :
       /\ CallOn(Failing(k), [ArgsThrowing("assign", k) EXCEPT !.src = SrcRange(seq)],
                 LAMBDA w : assign(w, "A", SrcRange(seq), TRUE))
       /\ LastCall(k)
NextThrowing ==
  \/ PushBackThrowing \/ EmplaceBackThrowing \/ EmplaceThrowing
  \/ InsertValueThrowing \/ InsertRangeThrowing
  \/ ResizeThrowing \/ AssignThrowing
SpecThrowing == Init /\ [][NextThrowing]_vars

\* ------------------------------------------------------------- properties
Contents(h, c) == SubSeq(h[c.ptr], 1, c.size)
Before(self) == call.pre.c[self]
OldContents(self) ==
  IF Before(self).ptr = Null THEN <<>> ELSE Contents(call.pre.heap, Before(self))
NewContents(self) == IF cs[self].ptr = Null THEN <<>> ELSE Contents(heap, cs[self])
Returned(op) == call.a.op = op /\ call.exc = "none"

\* C1: after any sequence of public operations, whether they returned or
\* threw, every container that exists has 0 <= size <= capacity.
C1_SizeWithinCapacity ==
  \A n \in Names : cs[n].alive => 0 <= cs[n].size /\ cs[n].size <= cs[n].cap
\* an in-place insertion of several elements has returned and left the
\* container neither empty nor full
C1_Witness ==
  /\ Returned("insert_count") /\ call.path = "inplace" /\ call.a.count > 1
  /\ 0 < cs["A"].size /\ cs["A"].size < cs["A"].cap

\* the slots of every existing container's buffer: elements in [0, size),
\* none in [size, capacity)
LiveSlotsAreSize(h, c) ==
  \A n \in Names :
    c[n].alive =>
      IF c[n].ptr = Null THEN c[n].size = 0 /\ c[n].cap = 0
      ELSE /\ Len(h[c[n].ptr]) = c[n].cap
           /\ \A i \in 1..c[n].cap : (h[c[n].ptr][i] # Raw) <=> (i <= c[n].size)
\* the events of the observed call on container-owned storage
Owned(op) == {k \in 1..Len(call.log) : call.log[k].op = op /\ call.log[k].p # Null}
TotalSize(c) == c["A"].size + c["B"].size + c["T"].size

\* C2: an operation that returns, called at a boundary where the live slots
\* of every container are exactly [0, size), leaves them so, constructs no
\* slot that already holds an element, destroys no slot that holds none, and
\* its constructions minus its destructions equal the change of size.
C2_LiveSlotsExactlySize ==
  (call.a.op # "none" /\ call.exc = "none"
     /\ LiveSlotsAreSize(call.pre.heap, call.pre.c)) =>
    /\ LiveSlotsAreSize(heap, cs)
    /\ \A k \in Owned("construct") : ~call.log[k].dlive
    /\ \A k \in Owned("destroy") : call.log[k].dlive
    /\ Cardinality(Owned("construct")) - Cardinality(Owned("destroy"))
         = TotalSize(cs) - TotalSize(call.pre.c)

\* the values a source range yields
SrcValues(src) == Tuple([k \in 1..Len(src) |-> src[k].v])

\* C3: insert(pos, first, last) that returns leaves the old elements before
\* pos, then the source values in source order, then the old elements from
\* pos onward; size has grown by the length of the range and the iterator
\* returned designates index pos of the resulting buffer.
C3_InsertRangeResult ==
  Returned("insert_range") =>
    /\ cs["A"].size = Before("A").size + Len(call.a.src)
    /\ call.ret = <<cs["A"].ptr, call.a.pos>>
    /\ NewContents("A") = SubSeq(OldContents("A"), 1, call.a.pos)
                            \o SrcValues(call.a.src)
                            \o SubSeq(OldContents("A"), call.a.pos + 1, Before("A").size)

\* the events of one kind of the observed call, in the order they happened
LogOf(op) == SelectSeq(call.log, LAMBDA e : e.op = op)
\* the observed call left every container and the heap as they were
Untouched == heap = call.pre.heap /\ cs = call.pre.c

\* C4: erase(first, last) that returns leaves the elements before first,
\* move-assigns each element of [last, end) to the slot distance(first, last)
\* to its left in increasing order, destroys exactly the distance(first,
\* last) trailing slots, shrinks size by that distance, keeps capacity and
\* the buffer, and returns first; when first = last it does nothing and
\* returns last.
C4_EraseRange ==
  Returned("erase_range") =>
    LET first == call.a.pos
        last == call.a.lst
        d == last - first
        n == Before("A").size
        p == Before("A").ptr
    IN IF d = 0
       THEN Untouched /\ call.log = <<>> /\ call.ret = <<p, last>>
       ELSE /\ NewContents("A") = SubSeq(OldContents("A"), 1, first)
                                    \o SubSeq(OldContents("A"), last + 1, n)
            /\ Len(LogOf("assign")) = n - last
            /\ \A k \in 1..(n - last) :
                 LET e == LogOf("assign")[k]
                 IN /\ e.p = p /\ e.i = first + k - 1 /\ e.how = "move"
                    /\ e.sk = "ref" /\ e.sp = p /\ e.si = last + k - 1
            /\ Len(LogOf("destroy")) = d
            /\ \A k \in 1..d :
                 LET e == LogOf("destroy")[k]
                 IN e.p = p /\ e.i = n - d + k - 1 /\ e.dlive
            /\ Len(call.log) = (n - last) + d
            /\ cs["A"] = [Before("A") EXCEPT !.size = n - d]
            /\ \A q \in BufIds : Len(heap[q]) = Len(call.pre.heap[q])
            /\ call.ret = <<p, first>>
\* an erasure from the middle has returned: elements stay before first,
\* elements of different values are erased and moved left
C4_Witness ==
  /\ Returned("erase_range")
  /\ 0 < call.a.pos /\ call.a.pos < call.a.lst /\ call.a.lst < Before("A").size
  /\ OldContents("A")[call.a.pos + 1] # OldContents("A")[call.a.lst + 1]

Max(a, b) == IF a >= b THEN a ELSE b
RECURSIVE Pow2(_)
Pow2(k) == IF k = 0 THEN 1 ELSE 2 * Pow2(k - 1)
\* ceil(log2(n)) for n >= 1
CeilLog2(n) == CHOOSE k \in 0..n : Pow2(k) >= n /\ (k = 0 \/ Pow2(k - 1) < n)
PushedBack == call.a.op \in {"push_back", "push_back_rvalue"} /\ call.exc = "none"

\* C5: in a run of n push_back calls on a container that started empty, a
\* push that reallocates at size s leaves capacity max(s + 1, 2 * s), at
\* least twice s; a push at size < capacity allocates nothing and keeps the
\* buffer; and the reallocations of the run number at most
\* ceil(log2(n)) + 1.
C5_PushBackGrowth ==
  /\ (PushedBack /\ run.pushes >= 1 /\ LogOf("allocate") # <<>>) =>
       /\ Len(LogOf("allocate")) = 1
       /\ cs["A"].cap = Max(Before("A").size + 1, 2 * Before("A").size)
       /\ cs["A"].cap >= 2 * Before("A").size
       /\ Len(heap[cs["A"].ptr]) = cs["A"].cap
  /\ (PushedBack /\ run.pushes >= 1 /\ Before("A").size < Before("A").cap) =>
       /\ LogOf("allocate") = <<>>
       /\ cs["A"].ptr = Before("A").ptr /\ cs["A"].cap = Before("A").cap
  /\ run.pushes >= 1 => run.reallocs <= CeilLog2(run.pushes) + 1
\* the 9th push_back of a run has returned and was the 5th to reallocate
C5_Witness ==
  /\ PushedBack /\ run.pushes = 9 /\ run.reallocs = 5
  /\ LogOf("allocate") # <<>> /\ Before("A").size = 8 /\ cs["A"].cap = 16

\* push_back, emplace, insert, resize, reserve, shrink_to_fit
GrowingOps ==
  {"push_back", "push_back_rvalue", "emplace", "emplace_back", "insert_value",
   "insert_rvalue", "insert_count", "insert_range", "resize", "resize_value",
   "reserve", "shrink_to_fit"}

\* C6: with an element type whose move constructor cannot throw, a growing
\* operation whose allocation the allocator fails ends with an allocation
\* error thrown to the caller and leaves size, capacity, buffer and elements
\* of every container as before the call.
C6_AllocationFailureReported ==
  (nothrowMove /\ call.a.op \in GrowingOps /\ call.a.oom) =>
    call.exc = "bad_alloc" /\ Untouched

\* the observed call returned and its value argument designates an element
\* of the container it was called on
Aliased(op) == Returned(op) /\ call.a.src[1].k = "ref"
\* the machine before the observed call, and the value of v[i] copied into
\* storage of its own
PreMachine == Machine(call.pre.heap, call.pre.c, FALSE, MovedFrom)
CopyOfArg == ValSrc(OldContents("A")[call.a.src[1].i + 1])
ContentsAfter(w) == IF w.c["A"].ptr = Null THEN <<>> ELSE Contents(w.heap, w.c["A"])

\* C7: insert(pos, v[i]), insert(pos, count, v[i]) and emplace(pos, v[i])
\* that return leave the contents that the same call leaves when it is given
\* a copy of v[i] held outside the container.
C7_AliasSafe ==
  /\ Aliased("insert_value") =>
       NewContents("A")
         = ContentsAfter(insert_value(PreMachine, "A", call.a.pos, CopyOfArg))
  /\ Aliased("insert_count") =>
       NewContents("A")
         = ContentsAfter(insert_count(PreMachine, "A", call.a.pos, call.a.count,
                                      CopyOfArg))
  /\ Aliased("emplace") =>
       NewContents("A")
         = ContentsAfter(emplace(PreMachine, "A", call.a.pos, CopyOfArg))
\* an in-place insert(pos, v[i]) has returned whose argument is an element
\* that the insertion shifts
C7_Witness ==
  /\ Aliased("insert_value") /\ call.path = "inplace"
  /\ call.a.pos <= call.a.src[1].i /\ call.a.src[1].i < Before("A").size

\* the number a sequence of decimal digits reads as
RECURSIVE Decimal(_)
Decimal(digits) ==
  IF digits = <<>> THEN 0
  ELSE 10 * Decimal(SubSeq(digits, 1, Len(digits) - 1)) + digits[Len(digits)]

\* C8: at(i) with i < size returns a reference to element i and changes
\* nothing; with i >= size it throws std::out_of_range whose message reports
\* i and the size, and size, capacity and elements stay as they were.
C8_At ==
  call.a.op = "at" =>
    IF call.a.pos < Before("A").size
    THEN /\ call.exc = "none"
         /\ call.ret = <<Before("A").ptr, call.a.pos>>
         /\ call.rv = OldContents("A")[call.a.pos + 1]
         /\ Untouched /\ call.log = <<>>
    ELSE /\ call.exc = "out_of_range"
         /\ Decimal(call.msg[1]) = call.a.pos
         /\ Decimal(call.msg[2]) = Before("A").size
         /\ Untouched /\ call.log = <<>>
\* at(10) on a container of 3 elements has thrown
C8_Witness ==
  /\ call.a.op = "at" /\ call.exc = "out_of_range"
  /\ call.a.pos = 10 /\ Before("A").size = 3 /\ Len(call.msg[1]) = 2

\* C9: reserve(n) with n > max_size() throws std::length_error before any
\* allocation or element operation; size, capacity, buffer and elements are
\* as before the call.
C9_ReserveLengthError ==
  (call.a.op = "reserve" /\ call.a.count > max_size) =>
    call.exc = "length_error" /\ call.log = <<>> /\ Untouched
\* reserve(n) with n > max_size() has thrown on a container that holds
\* elements and for which the allocator could have provided n slots
C9_Witness ==
  /\ call.a.op = "reserve" /\ call.a.count > max_size /\ call.a.count <= memory
  /\ call.exc = "length_error" /\ Before("A").size > 0

\* C10: after x = std::move(y) between two distinct containers, x has y's
\* former buffer, elements, size and capacity; y has size 0, capacity 0 and
\* no buffer; each element x held has been destroyed exactly once, x's
\* former buffer has been deallocated, and nothing else has happened.
C10_MoveAssign ==
  (Returned("move_assign") /\ call.a.self # call.a.other) =>
    LET x == call.a.self
        y == call.a.other
        n == Before(x).size
        held == IF Before(x).cap > 0 THEN 1 ELSE 0
    IN /\ NewContents(x) = OldContents(y)
       /\ cs[x] = Before(y)
       /\ cs[y] = [Before(y) EXCEPT !.ptr = Null, !.cap = 0, !.size = 0]
       /\ Before(y).ptr # Null => heap[Before(y).ptr] = call.pre.heap[Before(y).ptr]
       /\ Len(LogOf("destroy")) = n
       /\ \A k \in 1..n :
            LET e == LogOf("destroy")[k]
            IN e.p = Before(x).ptr /\ e.i = k - 1 /\ e.dlive
       /\ Len(LogOf("deallocate")) = held
       /\ held = 1 =>
            /\ LogOf("deallocate")[1].p = Before(x).ptr
            /\ LogOf("deallocate")[1].i = Before(x).cap
            /\ heap[Before(x).ptr] = <<>>
       /\ Len(call.log) = n + held
\* a move-assignment has returned between two containers that both held
\* elements, the source with spare capacity
C10_Witness ==
  /\ Returned("move_assign") /\ call.a.self # call.a.other
  /\ Before(call.a.self).size > 0 /\ Before(call.a.other).size > 0
  /\ Before(call.a.other).cap > Before(call.a.other).size
  /\ Before(call.a.self).cap # Before(call.a.other).cap

\* C11: vector(first, last) that returns, from a multi-pass or a single-pass
\* range, holds as many elements as the range, equal to the range's values
\* in the range's order from begin() to end().
C11_RangeRoundTrip ==
  Returned("vector_range") =>
    /\ cs["A"].alive
    /\ cs["A"].size = Len(call.a.src)
    /\ NewContents("A") = SrcValues(call.a.src)
\* a container has been constructed from a single-pass range of two
\* different values
C11_Witness ==
  /\ Returned("vector_range") /\ ~call.a.forward
  /\ Len(call.a.src) >= 2 /\ call.a.src[1].v # call.a.src[2].v

\* insert(pos, first, last) from a single-pass source of StreamLen values
\* into [0, 1] at position 1 has returned
StreamInserted ==
  /\ Returned("insert_range") /\ ~call.a.forward
  /\ OldContents("A") = <<DefaultVal, OtherVal>>
  /\ call.a.pos = 1 /\ Len(call.a.src) = StreamLen
Events(op) == {k \in 1..Len(call.log) : call.log[k].op = op}
\* the allocations made for the local vector tmp: all but the one for the
\* container's own new buffer, which comes last
TmpAllocations ==
  IF call.path = "realloc"
  THEN {k \in Events("allocate") : \E j \in Events("allocate") : j > k}
  ELSE Events("allocate")
\* the buffer allocated by event k is next deallocated, with its length and
\* holding no element
ReleasedOnce(k) ==
  \E j \in Events("deallocate") :
    /\ j > k /\ call.log[j].p = call.log[k].p
    /\ call.log[j].i = call.log[k].i /\ call.log[j].sok /\ ~call.log[j].dlive
    /\ \A m \in (k + 1)..(j - 1) :
         ~(call.log[m].p = call.log[k].p /\ call.log[m].op \in {"allocate", "deallocate"})
\* tmp is gone and so is every buffer not owned by a container
NoResidue ==
  /\ ~cs["T"].alive
  /\ \A k \in TmpAllocations : ReleasedOnce(k)
  /\ \A k \in Events("deallocate") : call.log[k].sok
  /\ \A q \in BufIds : q \notin {cs["A"].ptr, cs["B"].ptr} => heap[q] = <<>>
InsertedInOrder ==
  NewContents("A") = SubSeq(OldContents("A"), 1, call.a.pos)
                       \o SrcValues(call.a.src)
                       \o SubSeq(OldContents("A"), call.a.pos + 1, Before("A").size)
\* the buffers a vector allocates while k values are appended to it one by
\* one from empty: one at each size 0, 1, 2, 4, ...
GrowthBuffers(k) == Cardinality({s \in 0..(k - 1) : s = 0 \/ \E e \in 0..k : s = Pow2(e)})

KnowableAssign == call.a.op \in {"assign", "assign_count"} /\ call.a.forward
\* the range assign is given
AssignSrc ==
  IF call.a.op = "assign_count" THEN Tuple([k \in 1..call.a.count |-> call.a.src[1]])
  ELSE call.a.src
\* the events of the observed call on the buffer the container had before
OnOldBuffer == {k \in 1..Len(call.log) : call.log[k].p = Before("A").ptr}
Min(a, b) == IF a <= b THEN a ELSE b

\* C13: assign of a range of knowable length n that returns leaves size n
\* and the range's values in order.  With n > capacity the old buffer sees no
\* event before the last construction in the fresh container, which has
\* capacity n, and a call that does not return leaves the container and its
\* buffer as they were.  With n <= capacity nothing is allocated or
\* deallocated, capacity and buffer stay, the first min(old size, n) slots
\* are copy-assigned in order, and then the remaining values are constructed
\* at the end or the excess slots destroyed.
C13_Assign ==
  KnowableAssign =>
    LET n == Len(AssignSrc)
        old == Before("A").size
        m == Min(old, n)
    IN /\ call.exc = "none" =>
            cs["A"].size = n /\ NewContents("A") = SrcValues(AssignSrc)
       /\ (n > Before("A").cap /\ call.exc = "none") =>
            /\ cs["A"].cap = n /\ Events("assign") = {}
            /\ \A k \in OnOldBuffer : \A j \in Events("construct") : j < k
            /\ Cardinality(Events("destroy")) = old
       /\ (n > Before("A").cap /\ call.exc # "none") =>
            /\ cs["A"] = Before("A") /\ OnOldBuffer = {}
            /\ NewContents("A") = OldContents("A")
       /\ n <= Before("A").cap =>
            /\ call.exc = "none"
            /\ Events("allocate") = {} /\ Events("deallocate") = {}
            /\ cs["A"].cap = Before("A").cap /\ cs["A"].ptr = Before("A").ptr
            /\ Len(LogOf("assign")) = m
            /\ \A k \in 1..m :
                 LET e == LogOf("assign")[k]
                 IN /\ e.p = Before("A").ptr /\ e.i = k - 1 /\ e.how = "copy"
                    /\ call.log[k] = e
            /\ Len(LogOf("construct")) = n - m
            /\ \A k \in 1..(n - m) :
                 LET e == LogOf("construct")[k]
                 IN e.p = Before("A").ptr /\ e.i = m + k - 1 /\ ~e.dlive
            /\ Len(LogOf("destroy")) = old - m
            /\ \A k \in 1..(old - m) :
                 LET e == LogOf("destroy")[k]
                 IN e.p = Before("A").ptr /\ e.i = m + k - 1 /\ e.dlive
            /\ Len(call.log) = m + (n - m) + (old - m)
\* a range longer than the capacity has been assigned to a container that
\* held an element
C13_Witness ==
  /\ Returned("assign") /\ call.a.forward
  /\ Len(call.a.src) > Before("A").cap /\ Before("A").size > 0

\* C14: shrink_to_fit() returns unless the allocator fails; when it returns,
\* capacity = size and the elements are as before in value and order; an
\* empty container has released its buffer and owns none; a container whose
\* capacity already equalled its size has seen no event and no change;
\* otherwise one buffer of exactly size slots was allocated and the old one
\* released.
C14_ShrinkToFit ==
  call.a.op = "shrink_to_fit" =>
    /\ ~call.a.oom => call.exc = "none"
    /\ call.exc = "none" =>
         /\ cs["A"].cap = cs["A"].size
         /\ cs["A"].size = Before("A").size
         /\ NewContents("A") = OldContents("A")
         /\ Before("A").size = 0 =>
              /\ cs["A"].ptr = Null /\ cs["A"].cap = 0
              /\ Events("allocate") = {} /\ Events("construct") = {}
              /\ Before("A").ptr # Null => heap[Before("A").ptr] = <<>>
         /\ Before("A").cap = Before("A").size => call.log = <<>> /\ Untouched
         /\ (0 < Before("A").size /\ Before("A").size < Before("A").cap) =>
              /\ Len(LogOf("allocate")) = 1
              /\ LogOf("allocate")[1].i = Before("A").size
              /\ LogOf("allocate")[1].p = cs["A"].ptr
              /\ Len(heap[cs["A"].ptr]) = Before("A").size
              /\ Len(LogOf("deallocate")) = 1
              /\ LogOf("deallocate")[1].p = Before("A").ptr
              /\ LogOf("deallocate")[1].i = Before("A").cap
              /\ heap[Before("A").ptr] = <<>>
\* shrink_to_fit() has returned on a container that held different values
\* and had spare capacity
C14_Witness ==
  /\ Returned("shrink_to_fit")
  /\ 1 < Before("A").size /\ Before("A").size < Before("A").cap
  /\ OldContents("A")[1] # OldContents("A")[2]
\* C15: a shrink_to_fit() that directly follows a shrink_to_fit() returns
\* with an empty log (no allocation, no deallocation, no element operation)
\* and leaves heap and container as they were; clear() on a container of
\* size 0 returns without an element operation and leaves size, capacity
\* and the buffer as they were.
ElementOps == {"construct", "assign", "destroy"}
C15_Idempotent ==
  /\ call.a.op = "shrink_to_fit_again" =>
        /\ call.exc = "none" /\ ~call.a.oom
        /\ call.log = <<>>
        /\ heap = call.pre.heap /\ cs = call.pre.c
  /\ (call.a.op = "clear" /\ Before("A").size = 0) =>
        /\ call.exc = "none"
        /\ \A k \in 1..Len(call.log) : call.log[k].op \notin ElementOps
        /\ cs["A"] = Before("A")
        /\ heap = call.pre.heap
\* the second of two shrink_to_fit() calls has returned where the first
\* moved two elements to a smaller buffer
C15_Witness ==
  /\ Returned("shrink_to_fit_again")
  /\ call.a.count > Before("A").cap
  /\ Before("A").size > 1
\* clear() has returned on an empty container that owns a buffer
C15_WitnessClear ==
  /\ Returned("clear") /\ Before("A").size = 0 /\ Before("A").cap > 0
\* the number of elements the observed insertion was asked to insert; -1
\* for any other call and for a range read from a single-pass source
Inserted ==
  IF call.a.op \in {"push_back", "push_back_rvalue", "emplace_back", "emplace",
                    "insert_value", "insert_rvalue"} THEN 1
  ELSE IF call.a.op = "insert_count" THEN call.a.count
  ELSE IF call.a.op = "insert_range" /\ call.a.forward THEN Len(call.a.src)
  ELSE -1
HasRoom == Inserted >= 0 /\ Before("A").size + Inserted <= Before("A").cap

\* C16: an insertion of k elements into a container with size + k <=
\* capacity returns without any allocation or deallocation, with capacity
\* and buffer as before and size grown by k; insert(pos, value) before the
\* end leaves the old elements before pos, the value, and the old elements
\* from pos onward.
C16_InsertWithRoom ==
  HasRoom =>
    /\ call.exc = "none" /\ ~call.a.oom
    /\ Events("allocate") = {} /\ Events("deallocate") = {}
    /\ cs["A"].cap = Before("A").cap /\ cs["A"].ptr = Before("A").ptr
    /\ cs["A"].size = Before("A").size + Inserted
    /\ (call.a.op = "insert_value" /\ call.a.pos < Before("A").size
          /\ call.a.src[1].k # "ref") =>
         NewContents("A") = SubSeq(OldContents("A"), 1, call.a.pos)
                              \o SrcValues(call.a.src)
                              \o SubSeq(OldContents("A"), call.a.pos + 1,
                                        Before("A").size)
\* insert(index 1, value) has returned on a container of three elements and
\* capacity four, and the value differs from the element it displaced
C16_Witness ==
  /\ Returned("insert_value") /\ HasRoom
  /\ Before("A").size = 3 /\ Before("A").cap = 4 /\ call.a.pos = 1
  /\ call.a.src[1].k # "ref"
  /\ SrcValues(call.a.src)[1] # OldContents("A")[2]
\* C17: reserve(n) with n <= max_size(): when n <= capacity it returns with
\* an empty log and nothing changed; when n > capacity it returns unless the
\* allocator fails, and then capacity is exactly n, the buffer has n slots,
\* size and contents are as before, and the old buffer, if there was one,
\* has been deallocated with its capacity.
C17_Reserve ==
  (call.a.op = "reserve" /\ call.a.count <= max_size) =>
    /\ call.a.count <= Before("A").cap =>
         call.exc = "none" /\ call.log = <<>> /\ Untouched
    /\ call.a.count > Before("A").cap =>
         /\ ~call.a.oom => call.exc = "none"
         /\ call.exc = "none" =>
              /\ cs["A"].cap = call.a.count
              /\ Len(heap[cs["A"].ptr]) = call.a.count
              /\ Len(LogOf("allocate")) = 1
              /\ LogOf("allocate")[1].i = call.a.count
              /\ cs["A"].size = Before("A").size
              /\ NewContents("A") = OldContents("A")
              /\ Before("A").ptr = Null => Events("deallocate") = {}
              /\ Before("A").ptr # Null =>
                   /\ heap[Before("A").ptr] = <<>>
                   /\ Len(LogOf("deallocate")) = 1
                   /\ LogOf("deallocate")[1].p = Before("A").ptr
                   /\ LogOf("deallocate")[1].i = Before("A").cap
\* reserve(3) has returned on a full container of two different elements,
\* where doubling would have given capacity 4
C17_Witness ==
  /\ Returned("reserve") /\ call.a.count = 3
  /\ Before("A").size = 2 /\ Before("A").cap = 2
  /\ OldContents("A")[1] # OldContents("A")[2]
  /\ cs["A"].cap = 3
\* reserve(n) has returned without doing anything on a container whose
\* capacity is already n or more
C17_WitnessNoOp ==
  /\ Returned("reserve") /\ 0 < call.a.count
  /\ call.a.count < Before("A").cap /\ Before("A").size > 0
\* the container's record and buffer agree: 0 <= size <= capacity, the
\* buffer has capacity slots, elements in [0, size), none in [size, capacity)
Valid(h, c) ==
  /\ 0 <= c.size /\ c.size <= c.cap
  /\ IF c.ptr = Null THEN c.cap = 0
     ELSE /\ Len(h[c.ptr]) = c.cap
          /\ \A i \in 1..c.cap : (h[c.ptr][i] # Raw) <=> (i <= c.size)
ElementFailed == Events("throw") # {}

\* C18: when a constructor or an assignment of the element type throws
\* during insert, emplace, push_back, emplace_back, resize or assign on a
\* valid container, the call ends with that exception and the container is
\* valid: 0 <= size <= capacity, elements in [0, size), none in [size,
\* capacity).
C18_ElementFailure ==
  (ElementFailed /\ Valid(call.pre.heap, Before("A"))) =>
    /\ call.exc = "element_error"
    /\ cs["A"].alive /\ Valid(heap, cs["A"])
\* the containers that own buffer p
Owners(p) == {n \in Names : cs[n].alive /\ cs[n].ptr = p}

\* C19: after any sequence of operations in which the last one returned,
\* every container owns a buffer exactly when its capacity is positive, and
\* the buffer then has capacity slots; every buffer that is allocated is
\* the buffer of exactly one container, so that each buffer the call
\* allocated, temporaries included, is a current buffer or has been
\* deallocated; every deallocation of the call is of an allocated buffer
\* with the length it was allocated with; the default constructor
\* allocates nothing.
C19_BufferOwnership ==
  call.exc = "none" =>
    /\ \A n \in Names :
         cs[n].alive =>
           /\ cs[n].cap = 0 <=> cs[n].ptr = Null
           /\ cs[n].cap > 0 => Len(heap[cs[n].ptr]) = cs[n].cap
    /\ \A p \in BufIds : heap[p] # <<>> => Cardinality(Owners(p)) = 1
    /\ \A k \in Events("deallocate") : call.log[k].sok
    /\ \A k \in Events("allocate") :
         \/ Owners(call.log[k].p) # {} /\ \A j \in Events("deallocate") :
                                            j > k => call.log[j].p # call.log[k].p
         \/ \E j \in Events("deallocate") :
              /\ j > k /\ call.log[j].p = call.log[k].p
              /\ call.log[j].i = call.log[k].i
    /\ call.a.op = "vector" =>
         call.log = <<>> /\ cs["A"].ptr = Null /\ cs["A"].cap = 0
\* insert from a single-pass source has returned after it built a temporary
\* in several buffers and moved the container to a new buffer
C19_Witness ==
  /\ Returned("insert_range") /\ ~call.a.forward /\ call.path = "realloc"
  /\ Cardinality(Events("allocate")) > 2
  /\ Cardinality(Events("deallocate")) = Cardinality(Events("allocate"))
\* assign from a range longer than the capacity has returned after it
\* built a temporary and swapped with it
C19_WitnessAssign ==
  /\ Returned("assign") /\ call.a.forward /\ Before("A").cap > 0
  /\ Before("A").cap < Len(call.a.src)
  /\ Events("allocate") # {} /\ Events("deallocate") # {}

\* whether the free erase call observed matches value x: x equals the
\* argument as it was when the call was made, or the predicate accepts x
Matching(x) ==
  IF call.a.op = "erase_value" THEN x = SrcValue(PreMachine, call.a.src[1])
  ELSE \E k \in 1..Len(call.a.src) : call.a.src[k].v = x
Kept == SelectSeq(OldContents("A"), LAMBDA x : ~Matching(x))
ErasedAsStated ==
  /\ NewContents("A") = Kept
  /\ cs["A"].size = Len(Kept)
  /\ call.rv = Before("A").size - Len(Kept)
  /\ cs["A"].cap = Before("A").cap /\ cs["A"].ptr = Before("A").ptr
FreeErase ==
  /\ call.a.op \in {"erase_value", "erase_if"} /\ call.exc = "none"
  /\ Valid(call.pre.heap, Before("A"))

\* C20 as stated: erase(c, value) and erase_if(c, pred) that return leave
\* the elements that do not match in their order, reduce size by the number
\* of matching elements, return that number and keep the capacity.
C20_EraseFreeAnyValue == FreeErase => ErasedAsStated
\* C20: the same for erase_if(c, pred) and for erase(c, value) where value
\* does not designate an element of c.
C20_EraseFree ==
  (FreeErase /\ (call.a.op = "erase_value" => call.a.src[1].k # "ref")) =>
    ErasedAsStated
\* erase(c, value) has returned after erasing two elements that had an
\* element to keep between them
C20_Witness ==
  /\ FreeErase /\ call.a.op = "erase_value" /\ call.a.src[1].k # "ref"
  /\ call.rv = 2 /\ Before("A").size = 3 /\ ~Matching(OldContents("A")[2])
\* erase_if(c, pred) has returned after erasing elements from the front and
\* keeping later ones
C20_WitnessPred ==
  /\ FreeErase /\ call.a.op = "erase_if"
  /\ call.rv > 0 /\ cs["A"].size > 0 /\ Matching(OldContents("A")[1])
\* the element operations of the observed call, in order
ElementLog == SelectSeq(call.log, LAMBDA e : e.op \in ElementOps)

\* C21: vector(n) and resize(n) on a container of size 0 that return have
\* performed exactly n element operations, the default constructions of
\* indices 0, 1, ..., n - 1 of the resulting buffer in this order; the
\* destructor of a valid container performs exactly size element
\* operations, the destructions of indices 0, 1, ..., size - 1 in this
\* order, each of a live element, and deallocates the buffer after them.
C21_ConstructDestroyOrder ==
  /\ (Returned("vector_count") \/ (Returned("resize") /\ Before("A").size = 0)) =>
       /\ Len(ElementLog) = call.a.count
       /\ \A k \in 1..Len(ElementLog) :
            /\ ElementLog[k].op = "construct" /\ ElementLog[k].how = "default"
            /\ ElementLog[k].p = cs["A"].ptr /\ ElementLog[k].i = k - 1
            /\ ~ElementLog[k].dlive
       /\ cs["A"].size = call.a.count
  /\ (Returned("~vector") /\ Valid(call.pre.heap, Before("A"))) =>
       /\ Len(ElementLog) = Before("A").size
       /\ \A k \in 1..Len(ElementLog) :
            /\ call.log[k].op = "destroy" /\ call.log[k].dlive
            /\ call.log[k].p = Before("A").ptr /\ call.log[k].i = k - 1
       /\ Len(call.log) = Before("A").size + (IF Before("A").cap > 0 THEN 1 ELSE 0)
       /\ Before("A").cap > 0 =>
            /\ call.log[Len(call.log)].op = "deallocate"
            /\ call.log[Len(call.log)].p = Before("A").ptr
            /\ call.log[Len(call.log)].i = Before("A").cap
            /\ heap[Before("A").ptr] = <<>>
\* vector(n) has returned with n > 1 elements
C21_Witness ==
  /\ Returned("vector_count") /\ call.a.count > 1 /\ cs["A"].size = call.a.count
\* the calls that ask for a size or capacity of count elements
SizeRequests ==
  {"resize", "resize_value", "reserve", "vector_count", "vector_count_value"}

\* C22: resize(n), resize(n, value), reserve(n), vector(n) and vector(n,
\* value) with n > max_size() throw std::length_error and leave every
\* container and the heap as they were.
C22_LengthError ==
  (call.a.op \in SizeRequests /\ call.a.count > max_size) =>
    call.exc = "length_error" /\ Untouched
\* reserve or resize(count) has returned after it relocated the elements of
\* a valid container to a new buffer, which these two do in a single run
Relocated ==
  /\ call.a.op \in {"reserve", "resize"} /\ call.exc = "none"
  /\ cs["A"].ptr # Before("A").ptr /\ Valid(call.pre.heap, Before("A"))
\* the constructions from elements of a buffer and the destructions of the
\* observed call, in order
RunLog ==
  SelectSeq(call.log,
            LAMBDA e : (e.op = "construct" /\ e.sk = "ref") \/ e.op = "destroy")
ConstructsFrom(e, i) ==
  /\ e.op = "construct" /\ e.p = cs["A"].ptr /\ e.i = i
  /\ e.sp = Before("A").ptr /\ e.si = i /\ ~e.dlive /\ e.sok
DestroysOld(e, i) == e.op = "destroy" /\ e.p = Before("A").ptr /\ e.i = i /\ e.dlive

\* C23: a relocation with source destruction of the size elements of the
\* old buffer consists of size constructions and size destructions: when
\* the move constructor is noexcept, dst[i] is constructed and src[i]
\* destroyed right after it, for i = 0, 1, ...; otherwise dst[0], dst[1], ...
\* are all constructed first and src[0], src[1], ... destroyed after them.
C23_DestroyOrder ==
  Relocated =>
    /\ Len(RunLog) = 2 * Before("A").size
    /\ \A i \in 0..(Before("A").size - 1) :
         IF nothrowMove
         THEN ConstructsFrom(RunLog[2 * i + 1], i) /\ DestroysOld(RunLog[2 * i + 2], i)
         ELSE /\ ConstructsFrom(RunLog[i + 1], i)
              /\ DestroysOld(RunLog[Before("A").size + i + 1], i)
\* two elements have been relocated with a noexcept move constructor
C23_Witness == Relocated /\ nothrowMove /\ Before("A").size = 2

InsertRealloc ==
  /\ call.a.op \in {"insert_value", "insert_rvalue", "insert_count", "insert_range"}
  /\ call.a.forward /\ call.exc = "none" /\ call.path = "realloc"
  /\ Valid(call.pre.heap, Before("A"))
\* the constructions in the new buffer, by destination: the new elements
\* [pos, pos + count), the elements before pos, the elements from pos onward
IntoNew(k) == call.log[k].op = "construct" /\ call.log[k].p = cs["A"].ptr
IsNewElement(k) ==
  /\ IntoNew(k) /\ call.a.pos <= call.log[k].i
  /\ call.log[k].i < call.a.pos + Inserted
IsPrefix(k) == IntoNew(k) /\ call.log[k].i < call.a.pos
IsSuffix(k) == IntoNew(k) /\ call.log[k].i >= call.a.pos + Inserted
\* the steps in the order stated: new elements, prefix, suffix, release
NewFirstOrder ==
  \A j, k \in 1..Len(call.log) :
    /\ (IsNewElement(j) /\ (IsPrefix(k) \/ IsSuffix(k))) => j < k
    /\ (IsPrefix(j) /\ IsSuffix(k)) => j < k
\* the steps in the order prefix, new elements, suffix, release
NaturalOrder ==
  \A j, k \in 1..Len(call.log) :
    /\ (IsPrefix(j) /\ (IsNewElement(k) \/ IsSuffix(k))) => j < k
    /\ (IsNewElement(j) /\ IsSuffix(k)) => j < k
\* size + count constructions in the new buffer, one for each index, all
\* of them before the old buffer is released; the container has the new
\* buffer in the end
BuiltThenReleased ==
  /\ \A i \in 0..(cs["A"].size - 1) :
       Cardinality({k \in 1..Len(call.log) : IntoNew(k) /\ call.log[k].i = i}) = 1
  /\ cs["A"].size = Before("A").size + Inserted
  /\ Len(LogOf("allocate")) = 1 /\ LogOf("allocate")[1].p = cs["A"].ptr
  /\ \A d \in Events("deallocate") :
       /\ call.log[d].p = Before("A").ptr
       /\ \A k \in 1..Len(call.log) : IntoNew(k) => k < d
  /\ Before("A").ptr # Null =>
       Cardinality(Events("deallocate")) = 1 /\ heap[Before("A").ptr] = <<>>

\* C25 as stated: every insert overload that reallocates constructs the new
\* elements at their final offsets first, then relocates the elements
\* before pos, then those from pos onward, then releases the old buffer and
\* has the new buffer installed.
C25_InsertOrderNewFirst == InsertRealloc => NewFirstOrder /\ BuiltThenReleased
\* C25: insert(pos, value), insert(pos, T&&) and insert(pos, count, value)
\* do so; insert(pos, first, last) relocates the elements before pos first,
\* then constructs the new elements, then relocates those from pos onward.
C25_InsertOrder ==
  InsertRealloc =>
    /\ BuiltThenReleased
    /\ IF call.a.op = "insert_range" THEN NaturalOrder ELSE NewFirstOrder
\* insert(pos, first, last) of two elements in the middle of a container
\* has reallocated
C25_Witness ==
  /\ InsertRealloc /\ call.a.op = "insert_range" /\ Inserted = 2
  /\ 0 < call.a.pos /\ call.a.pos < Before("A").size
\* insert(pos, count, value) or insert(pos, first, last) from a multi-pass
\* range has returned after it inserted in place before the end of a valid
\* container, with arguments that are no elements of the container
ShiftedInPlace ==
  /\ call.a.op \in {"insert_count", "insert_range"} /\ call.a.forward
  /\ call.exc = "none" /\ call.path = "inplace"
  /\ call.a.pos < Before("A").size
  /\ \A k \in 1..Len(call.a.src) : call.a.src[k].k # "ref"
  /\ Valid(call.pre.heap, Before("A"))
\* the events that read or move from slot i of the container's buffer
ReadsOf(i) ==
  {k \in 1..Len(call.log) :
     /\ call.log[k].op \in {"construct", "assign"} /\ call.log[k].sk = "ref"
     /\ call.log[k].sp = Before("A").ptr /\ call.log[k].si = i}

\* C26: shift_to_end(pos, offset) with pos before the end and size + offset
\* <= capacity, followed by the filling of the gap, constructs no slot that
\* holds an element, moves each element of [pos, end) exactly once, to the
\* slot offset to its right, and reads no element before pos and no slot
\* outside [0, size).
C26_ShiftTransfersOnce ==
  ShiftedInPlace =>
    /\ \A k \in Events("construct") : call.log[k].p # Null => ~call.log[k].dlive
    /\ \A i \in call.a.pos..(Before("A").size - 1) :
         /\ Cardinality(ReadsOf(i)) = 1
         /\ \A k \in ReadsOf(i) :
              call.log[k].how = "move" /\ call.log[k].i = i + Inserted
    /\ \A k \in 1..Len(call.log) :
         (call.log[k].sk = "ref" /\ call.log[k].op \in {"construct", "assign"}) =>
           /\ call.log[k].sok
           /\ call.a.pos <= call.log[k].si /\ call.log[k].si < Before("A").size
\* an insertion has returned after it shifted the elements from pos onward
\* within the buffer of a valid container; its arguments are no elements of
\* the container
ShiftedBeforeEnd ==
  /\ call.a.op \in {"emplace", "insert_value", "insert_rvalue", "insert_count",
                     "insert_range"}
  /\ Inserted >= 0
  /\ call.exc = "none" /\ call.path = "inplace"
  /\ call.a.pos < Before("A").size
  /\ \A k \in 1..Len(call.a.src) : call.a.src[k].k # "ref"
  /\ Valid(call.pre.heap, Before("A"))
\* the element operations of shift_to_end: those whose source is a slot of
\* the buffer
ShiftLog ==
  SelectSeq(call.log, LAMBDA e : /\ e.op \in {"construct", "assign"}
                                 /\ e.sk = "ref" /\ e.sp = Before("A").ptr)
\* the number of elements shift_to_end move-assigns
ShiftAssigned ==
  IF Before("A").size - Inserted > call.a.pos
  THEN Before("A").size - Inserted - call.a.pos ELSE 0
\* shift_to_end move-assigns the remaining elements after its constructions,
\* from destination size - 1 down to pos + offset, and each operation of the
\* shift reads a slot that the call has not written before
AssignedBackward ==
  /\ Len(ShiftLog) = Inserted + ShiftAssigned
  /\ \A k \in 1..Len(ShiftLog) :
       /\ ShiftLog[k].how = "move" /\ ShiftLog[k].p = Before("A").ptr
       /\ ShiftLog[k].si = ShiftLog[k].i - Inserted
       /\ ShiftLog[k].op = (IF k <= Inserted THEN "construct" ELSE "assign")
       /\ k > Inserted => ShiftLog[k].i = Before("A").size - (k - Inserted)
       /\ \A j \in 1..(k - 1) : ShiftLog[j].i # ShiftLog[k].si

\* C27 as stated: shift_to_end(pos, offset) with pos before the end
\* constructs the offset slots past the old size from the highest index to
\* the lowest, then move-assigns the remaining elements backward toward
\* pos, reading every source before its slot is overwritten.
C27_ShiftOrderTailFirst ==
  ShiftedBeforeEnd =>
    /\ AssignedBackward
    /\ \A k \in 1..Inserted : ShiftLog[k].i = Before("A").size + Inserted - k

\* C27: shift_to_end(pos, offset) with pos before the end constructs the
\* offset slots past the old size from the lowest index to the highest,
\* then move-assigns the remaining elements backward toward pos, reading
\* every source before its slot is overwritten.
C27_ShiftOrder ==
  ShiftedBeforeEnd =>
    /\ AssignedBackward
    /\ \A k \in 1..Inserted : ShiftLog[k].i = Before("A").size + k - 1
C27_Witness ==
  /\ ShiftedBeforeEnd /\ Inserted = 2 /\ Before("A").size = 2
  /\ Len(ShiftLog) = 2
C27_WitnessAssign ==
  /\ ShiftedBeforeEnd /\ Inserted = 1 /\ ShiftAssigned = 2
\* emplace or a single-value insert has returned on a valid container that
\* had size < capacity
SingleInPlace(ops) ==
  /\ call.a.op \in ops
  /\ call.exc = "none" /\ HasRoom
  /\ Valid(call.pre.heap, Before("A"))
\* the only element operation of the call is the construction of slot size
ConstructedAtEnd ==
  /\ Len(ElementLog) = 1
  /\ ElementLog[1].op = "construct" /\ ~ElementLog[1].dlive
  /\ ElementLog[1].p = Before("A").ptr /\ ElementLog[1].i = Before("A").size
\* the element operations from..to of the call are those of
\* shift_to_end(pos, 1): they write slots of the buffer from slots of the
\* buffer
ShiftedByOne(from, to) ==
  /\ to - from + 1 = Before("A").size - call.a.pos
  /\ \A k \in from..to :
       /\ ElementLog[k].op = (IF k = from THEN "construct" ELSE "assign")
       /\ ElementLog[k].p = Before("A").ptr /\ ElementLog[k].how = "move"
       /\ ElementLog[k].i = Before("A").size - (k - from)
       /\ ElementLog[k].sk = "ref" /\ ElementLog[k].sp = Before("A").ptr
       /\ ElementLog[k].si = ElementLog[k].i - 1
\* a value is constructed outside the buffer, then [pos, end) is shifted by
\* one, then the value is move-assigned to pos and destroyed
ThroughSideValue ==
  LET last == Len(ElementLog)
  IN /\ last = Before("A").size - call.a.pos + 3
     /\ ElementLog[1].op = "construct" /\ ElementLog[1].p = Null
     /\ ~ElementLog[1].dlive /\ ElementLog[1].sok
     /\ ShiftedByOne(2, last - 2)
     /\ ElementLog[last - 1].op = "assign" /\ ElementLog[last - 1].how = "move"
     /\ ElementLog[last - 1].p = Before("A").ptr
     /\ ElementLog[last - 1].i = call.a.pos
     /\ ElementLog[last - 1].sk = "side" /\ ElementLog[last - 1].sok
     /\ ElementLog[last].op = "destroy" /\ ElementLog[last].p = Null
     /\ ElementLog[last].dlive
\* [pos, end) is shifted by one, then the argument itself is move-assigned
\* to pos; no value is constructed or destroyed outside the buffer
StraightFromArgument ==
  LET last == Len(ElementLog)
  IN /\ last = Before("A").size - call.a.pos + 1
     /\ ShiftedByOne(1, last - 1)
     /\ ElementLog[last].op = "assign" /\ ElementLog[last].how = "move"
     /\ ElementLog[last].p = Before("A").ptr /\ ElementLog[last].i = call.a.pos
     /\ ElementLog[last].sk = call.a.src[1].k

\* C28 as stated: with size < capacity, emplace(pos, args), insert(pos,
\* value) and insert(pos, T&&) at the end construct slot size and do nothing
\* else to any element; before the end they construct a value outside the
\* buffer, shift [pos, end) by one, move-assign the value to pos and destroy
\* it once.
C28_InPlaceSingleAnyOverload ==
  SingleInPlace({"emplace", "insert_value", "insert_rvalue"}) =>
    IF call.a.pos = Before("A").size THEN ConstructedAtEnd ELSE ThroughSideValue

\* C28: with size < capacity, emplace(pos, args), insert(pos, value) and
\* insert(pos, T&&) at the end construct slot size and do nothing else to
\* any element; before the end emplace and insert(pos, value) construct a
\* value outside the buffer, shift [pos, end) by one, move-assign the value
\* to pos and destroy it once, while insert(pos, T&&) shifts and then
\* move-assigns its argument to pos.
C28_InPlaceSingle ==
  SingleInPlace({"emplace", "insert_value", "insert_rvalue"}) =>
    IF call.a.pos = Before("A").size THEN ConstructedAtEnd
    ELSE IF call.a.op = "insert_rvalue" THEN StraightFromArgument
    ELSE ThroughSideValue
C28_Witness ==
  /\ SingleInPlace({"emplace", "insert_value"})
  /\ call.a.pos = 0 /\ Before("A").size > 1
  /\ call.a.src[1].k = "ref"
C28_WitnessAtEnd ==
  /\ SingleInPlace({"emplace", "insert_value", "insert_rvalue"})
  /\ call.a.pos = Before("A").size /\ Before("A").size > 0
C28_WitnessRvalue ==
  /\ SingleInPlace({"insert_rvalue"})
  /\ call.a.pos = 0 /\ Before("A").size > 1
\* the events in which the construction of an inserted element threw in a
\* buffer newly allocated by insert or emplace on a valid container
InsertedFailedInNew ==
  {k \in Events("throw") :
     /\ call.a.op \in {"emplace", "insert_value", "insert_range"}
     /\ Valid(call.pre.heap, Before("A"))
     /\ call.log[k].sk # "ref"
     /\ call.log[k].p # Null /\ call.log[k].p # Before("A").ptr
     /\ \E j \in 1..(k - 1) :
          call.log[j].op = "allocate" /\ call.log[j].p = call.log[k].p}

\* C29: when the construction of an inserted element throws in the new
\* buffer of a reallocating insert or emplace, the exception reaches the
\* caller after every element constructed in the new buffer has been
\* destroyed exactly once and the new buffer has been deallocated.
C29_NoLeakOnFailure ==
  \A k \in InsertedFailedInNew :
    /\ call.exc = "element_error"
    /\ heap[call.log[k].p] = <<>>
    /\ \E d \in Events("deallocate") : d > k /\ call.log[d].p = call.log[k].p
    /\ \A j \in Events("construct") :
         call.log[j].p = call.log[k].p =>
           Cardinality({d \in Events("destroy") :
                          /\ d > j /\ call.log[d].p = call.log[j].p
                          /\ call.log[d].i = call.log[j].i}) = 1
\* range insert, insert(pos, count, value), resize(n, value) or
\* shrink_to_fit has returned after it moved a valid container to a new
\* buffer
RelocatedKeeping ==
  /\ \/ call.a.op \in {"insert_count", "resize_value", "shrink_to_fit"}
     \/ call.a.op = "insert_range" /\ call.a.forward
  /\ call.exc = "none"
  /\ cs["A"].ptr # Before("A").ptr /\ cs["A"].ptr # Null
  /\ Valid(call.pre.heap, Before("A"))
\* the number of elements the call adds
Added ==
  IF call.a.op = "shrink_to_fit" THEN 0
  ELSE IF call.a.op = "resize_value" THEN call.a.count - Before("A").size
  ELSE Inserted
\* the destructions of elements of the old buffer, in the order of the call
OldDestroyed ==
  SelectSeq(call.log, LAMBDA e : /\ e.op = "destroy" /\ e.p # Null
                                 /\ e.p = Before("A").ptr)
\* the constructions in the new buffer
NewConstructed(i) ==
  {k \in Events("construct") :
     call.log[k].p = cs["A"].ptr /\ call.log[k].i = i}

\* C30: when range insert, insert(pos, count, value), resize(n, value) or
\* shrink_to_fit reallocates, every element of the new buffer is constructed
\* before any element of the old buffer is destroyed; then the old size
\* elements are destroyed once each in ascending order, then the old buffer
\* is deallocated; the size becomes the old size plus the number of added
\* elements.
C30_DestroyAfterAllConstructed ==
  RelocatedKeeping =>
    /\ cs["A"].size = Before("A").size + Added
    /\ \A i \in 0..(cs["A"].size - 1) :
         /\ Cardinality(NewConstructed(i)) = 1
         /\ \A k \in NewConstructed(i), d \in Events("destroy") :
              call.log[d].p = Before("A").ptr => k < d
    /\ Len(OldDestroyed) = Before("A").size
    /\ \A j \in 1..Len(OldDestroyed) :
         OldDestroyed[j].i = j - 1 /\ OldDestroyed[j].dlive
    /\ Before("A").cap > 0 =>
         /\ Cardinality({k \in Events("deallocate") :
                           call.log[k].p = Before("A").ptr}) = 1
         /\ \A k \in Events("deallocate"), d \in Events("destroy") :
              (call.log[k].p = Before("A").ptr /\ call.log[d].p = Before("A").ptr)
                => d < k
C30_Witness ==
  /\ RelocatedKeeping /\ call.a.op = "resize_value"
  /\ Before("A").size = 2 /\ nothrowMove
C30_WitnessInsert ==
  /\ RelocatedKeeping /\ call.a.op \in {"insert_count", "insert_range"}
  /\ Before("A").size = 2 /\ Added = 2 /\ call.a.pos = 1
C30_WitnessShrink ==
  /\ RelocatedKeeping /\ call.a.op = "shrink_to_fit" /\ Before("A").size = 2
\* insert(pos, 0, value) or insert(pos, first, last) with first == last from
\* a multi-pass range, on a valid container that is not empty
InsertedNothing ==
  /\ \/ call.a.op = "insert_count" /\ call.a.count = 0
     \/ call.a.op = "insert_range" /\ call.a.forward /\ Len(call.a.src) = 0
  /\ Before("A").size > 0
  /\ Valid(call.pre.heap, Before("A"))

\* C31: insert(pos, first, last) with an empty range and insert(pos, 0,
\* value), for every pos in [begin, end] of a non-empty container, return
\* pos after no construction, assignment or destruction of an element of
\* the container, with size, capacity, buffer and every element as before.
C31_InsertNothing ==
  InsertedNothing =>
    /\ call.exc = "none"
    /\ \A k \in 1..Len(call.log) :
         call.log[k].op \in ElementOps => call.log[k].p = Null
    /\ Untouched
    /\ call.ret = <<Before("A").ptr, call.a.pos>>
\* resize(n) or resize(n, value) has returned on a valid container; value
\* designates an object of the caller or an element of the container
Resized ==
  /\ call.a.op \in {"resize", "resize_value"}
  /\ call.exc = "none"
  /\ Valid(call.pre.heap, Before("A"))
  /\ call.a.op = "resize_value" =>
       \/ call.a.src[1].k = "val"
       \/ /\ call.a.src[1].k = "ref" /\ call.a.src[1].p = Before("A").ptr
          /\ call.a.src[1].i < Before("A").size
\* what the new elements hold: a default-constructed element, or the value
\* the argument designated when the call began
FillValue ==
  IF call.a.op = "resize" THEN DefaultVal
  ELSE IF call.a.src[1].k = "ref"
       THEN call.pre.heap[call.a.src[1].p][call.a.src[1].i + 1]
  ELSE call.a.src[1].v
\* the destructions of elements of the container's old buffer at index i
DestroyedAt(i) ==
  {k \in Events("destroy") :
     /\ call.log[k].p # Null /\ call.log[k].p = Before("A").ptr
     /\ call.log[k].i = i}

\* C32: resize(n) and resize(n, value) that return leave size = n; for n <
\* size they destroy exactly the elements of [n, size), each once, and leave
\* the capacity, the buffer and the first n elements; for n > size the old
\* elements keep their values and order, the indices [size, n) hold
\* default-constructed elements or copies of value, and the capacity is as
\* before when n <= capacity and exactly n otherwise.
C32_Resize ==
  Resized =>
    /\ cs["A"].size = call.a.count
    /\ call.a.count < Before("A").size =>
         /\ \A i \in 0..(Before("A").size - 1) :
              Cardinality(DestroyedAt(i)) = (IF i >= call.a.count THEN 1 ELSE 0)
         /\ \A k \in 1..Len(call.log) :
              /\ call.log[k].op \in ElementOps
              /\ call.log[k].op = "destroy" /\ call.log[k].dlive
         /\ cs["A"].cap = Before("A").cap /\ cs["A"].ptr = Before("A").ptr
         /\ NewContents("A") = SubSeq(OldContents("A"), 1, call.a.count)
    /\ call.a.count > Before("A").size =>
         /\ SubSeq(NewContents("A"), 1, Before("A").size) = OldContents("A")
         /\ \A i \in (Before("A").size + 1)..call.a.count :
              NewContents("A")[i] = FillValue
         /\ cs["A"].cap = (IF call.a.count <= Before("A").cap
                            THEN Before("A").cap ELSE call.a.count)
C32_Witness ==
  /\ Resized /\ call.a.op = "resize_value" /\ call.a.src[1].k = "ref"
  /\ Before("A").size = 2 /\ call.a.count = 3 /\ Before("A").cap = 2
  /\ call.pre.heap[Before("A").ptr] = <<DefaultVal, OtherVal>>
  /\ call.a.src[1].i = 1
C32_WitnessShrink ==
  /\ Resized /\ call.a.op = "resize" /\ Before("A").size = 3 /\ call.a.count = 1
C32_WitnessInPlace ==
  /\ Resized /\ call.a.op = "resize" /\ Before("A").size = 1 /\ call.a.count = 3
  /\ Before("A").cap = 4 /\ OldContents("A") = <<OtherVal>>
====
